---------------------------- MODULE Spec2Model ----------------------------
(***************************************************************************)
(* State-machine model of the conversational booking assistant:            *)
(*   app/booking_flow.py  BookingFlow (extraction, validation, slot        *)
(*                        filling, confirmation, persistence call)         *)
(*   app/chat_logic.py    ChatLogic (intent detection, chat replies)        *)
(*   app/main.py          generate_response, Clear Chat                     *)
(*   db/database.py       BookingDatabase.create_booking                    *)
(*   app/tools.py         send_booking_email                                *)
(*                                                                         *)
(* Text is modelled as TLA+ strings, character by character.  Emoji, the   *)
(* decorative rule lines and the Markdown backquotes of the response       *)
(* templates are left out of the literals, and a bullet is written as an   *)
(* asterisk (no phrase the code searches for contains any of them); the    *)
(* only whitespace that occurs in modelled text is the space and "\n".     *)
(***************************************************************************)
EXTENDS Integers, Sequences, FiniteSets, TLC

-----------------------------------------------------------------------------
(* Python str / re primitives                                              *)

Ch(s, i) == SubSeq(s, i, i)

Digits == {"0", "1", "2", "3", "4", "5", "6", "7", "8", "9"}

LowerAlphabet == "abcdefghijklmnopqrstuvwxyz"

UpperAlphabet == "ABCDEFGHIJKLMNOPQRSTUVWXYZ"

LowerLetters == {Ch(LowerAlphabet, i) : i \in 1..Len(LowerAlphabet)}

UpperLetters == {Ch(UpperAlphabet, i) : i \in 1..Len(UpperAlphabet)}

Letters == LowerLetters \cup UpperLetters

\* \w of the re module, restricted to ASCII text
WordChars == Letters \cup Digits \cup {"_"}

ToLowerCh == [c \in UpperLetters |->
                Ch(LowerAlphabet, CHOOSE i \in 1..Len(UpperAlphabet) : Ch(UpperAlphabet, i) = c)]

ToUpperCh == [c \in LowerLetters |->
                Ch(UpperAlphabet, CHOOSE i \in 1..Len(LowerAlphabet) : Ch(LowerAlphabet, i) = c)]

LowerCh(c) == IF c \in UpperLetters THEN ToLowerCh[c] ELSE c

UpperCh(c) == IF c \in LowerLetters THEN ToUpperCh[c] ELSE c

\* str.lower()
RECURSIVE Lower(_)
Lower(s) ==
    IF s = "" THEN ""
    ELSE IF Len(s) = 1 THEN LowerCh(s)
    ELSE Lower(SubSeq(s, 1, Len(s) \div 2)) \o Lower(SubSeq(s, (Len(s) \div 2) + 1, Len(s)))

\* str.title(): a letter that follows a non-letter is upper-cased, every
\* other letter is lower-cased
RECURSIVE TitleFrom(_, _)
TitleFrom(s, prevIsLetter) ==
    IF s = "" THEN ""
    ELSE LET c == Ch(s, 1)
         IN  (IF prevIsLetter THEN LowerCh(c) ELSE UpperCh(c))
               \o TitleFrom(SubSeq(s, 2, Len(s)), c \in Letters)

Title(s) == TitleFrom(s, FALSE)

\* str.strip()
RECURSIVE Strip(_)
Strip(s) ==
    IF s = "" THEN ""
    ELSE IF Ch(s, 1) \in {" ", "\n"} THEN Strip(SubSeq(s, 2, Len(s)))
    ELSE IF Ch(s, Len(s)) \in {" ", "\n"} THEN Strip(SubSeq(s, 1, Len(s) - 1))
    ELSE s

\* k in t
Contains(t, k) ==
    \E i \in 1..(Len(t) - Len(k) + 1) : SubSeq(t, i, i + Len(k) - 1) = k

\* any(k in t for k in ks), ks a sequence
ContainsAny(t, ks) == \E n \in 1..Len(ks) : Contains(t, ks[n])

\* s.replace(old, new) for a one-character old
RECURSIVE ReplaceCh(_, _, _)
ReplaceCh(s, old, new) ==
    IF s = "" THEN ""
    ELSE (IF Ch(s, 1) = old THEN new ELSE Ch(s, 1))
           \o ReplaceCh(SubSeq(s, 2, Len(s)), old, new)

\* len(s.split()): the number of maximal runs of non-whitespace
WordCount(s) ==
    Cardinality({i \in 1..Len(s) :
                    /\ Ch(s, i) \notin {" ", "\n"}
                    /\ (i = 1 \/ Ch(s, i - 1) \in {" ", "\n"})})

AllIn(s, class) == \A i \in 1..Len(s) : Ch(s, i) \in class

\* str.isalpha() / str.isdigit(): false on the empty string
IsAlpha(s) == s # "" /\ AllIn(s, Letters)

IsDigit(s) == s # "" /\ AllIn(s, Digits)

DigitVal == [c \in Digits |-> CHOOSE n \in 0..9 : Ch("0123456789", n + 1) = c]

\* int(s) for a string of digits
RECURSIVE ToInt(_)
ToInt(s) == IF s = "" THEN 0
            ELSE 10 * ToInt(SubSeq(s, 1, Len(s) - 1)) + DigitVal[Ch(s, Len(s))]

\* str(n) for n >= 0
RECURSIVE ToStr(_)
ToStr(n) == IF n < 10 THEN Ch("0123456789", n + 1)
            ELSE ToStr(n \div 10) \o Ch("0123456789", (n % 10) + 1)

\* f"{n:02d}"
Pad2(n) == IF n < 10 THEN "0" \o ToStr(n) ELSE ToStr(n)

\* \b between positions p and p+1 of s (p in 0..Len(s))
IsWordAt(s, i) == i \in 1..Len(s) /\ Ch(s, i) \in WordChars

Boundary(s, p) == IsWordAt(s, p) # IsWordAt(s, p + 1)

Min(S) == CHOOSE x \in S : \A y \in S : x <= y

Max(S) == CHOOSE x \in S : \A y \in S : x >= y

\* the value Python's None stands for in this model
None == "<None>"


-----------------------------------------------------------------------------
(* Dictionaries (the draft, the extracted fields)                          *)

EmptyDict == [k \in {} |-> ""]

\* d[k] = v
Put(d, k, v) == [x \in (DOMAIN d) \cup {k} |-> IF x = k THEN v ELSE d[x]]

\* d.update(e)
Update(d, e) == [x \in (DOMAIN d) \cup (DOMAIN e) |-> IF x \in DOMAIN e THEN e[x] ELSE d[x]]

\* d.get(k, default)
Get(d, k, default) == IF k \in DOMAIN d THEN d[k] ELSE default

-----------------------------------------------------------------------------
(* Calendar: datetime.strptime(s, '%Y-%m-%d') and date ordinals            *)

IsLeap(y) == (y % 4 = 0 /\ y % 100 # 0) \/ y % 400 = 0

DaysInMonth(y, m) ==
    IF m = 2 THEN (IF IsLeap(y) THEN 29 ELSE 28)
    ELSE IF m \in {4, 6, 9, 11} THEN 30 ELSE 31

RECURSIVE DaysBeforeMonth(_, _)
DaysBeforeMonth(y, m) ==
    IF m = 1 THEN 0 ELSE DaysBeforeMonth(y, m - 1) + DaysInMonth(y, m - 1)

\* date(y, m, d).toordinal()
ToOrdinal(y, m, d) ==
    LET p == y - 1
    IN  365 * p + (p \div 4) - (p \div 100) + (p \div 400) + DaysBeforeMonth(y, m) + d

\* positions of the '-' characters of s
Dashes(s) == {i \in 1..Len(s) : Ch(s, i) = "-"}

\* strptime(s, '%Y-%m-%d') succeeds: four year digits, one or two month and
\* day digits, and a date the calendar has
DateParts(s) ==
    LET a == Min(Dashes(s))
        b == Max(Dashes(s))
    IN  <<SubSeq(s, 1, a - 1), SubSeq(s, a + 1, b - 1), SubSeq(s, b + 1, Len(s))>>

DateParses(s) ==
    /\ Cardinality(Dashes(s)) = 2
    /\ LET p == DateParts(s)
       IN  /\ IsDigit(p[1]) /\ Len(p[1]) = 4
           /\ IsDigit(p[2]) /\ Len(p[2]) \in {1, 2}
           /\ IsDigit(p[3]) /\ Len(p[3]) \in {1, 2}
           /\ ToInt(p[1]) >= 1
           /\ ToInt(p[2]) \in 1..12
           /\ ToInt(p[3]) \in 1..DaysInMonth(ToInt(p[1]), ToInt(p[2]))

\* the ordinal of a date string that parses
DateOrdinal(s) ==
    LET p == DateParts(s) IN ToOrdinal(ToInt(p[1]), ToInt(p[2]), ToInt(p[3]))

-----------------------------------------------------------------------------
(* Regular expressions of the extractor and the validator                  *)

LocalChars == Letters \cup Digits \cup {".", "_", "%", "+", "-"}

DomainChars == Letters \cup Digits \cup {".", "-"}

\* [A-Z|a-z]
TldChars == Letters \cup {"|"}

\* s[i..j] matches [A-Za-z0-9._%+-]+@[A-Za-z0-9.-]+\.[A-Z|a-z]{2,} with the
\* '@' at a and the dot before the top-level domain at d
EmailShape(s, i, a, d, j) ==
    /\ i < a /\ a + 1 < d /\ d + 2 <= j /\ j <= Len(s)
    /\ Ch(s, a) = "@"
    /\ Ch(s, d) = "."
    /\ \A k \in i..(a - 1) : Ch(s, k) \in LocalChars
    /\ \A k \in (a + 1)..(d - 1) : Ch(s, k) \in DomainChars
    /\ \A k \in (d + 1)..j : Ch(s, k) \in TldChars

AtSigns(s) == {k \in 1..Len(s) : Ch(s, k) = "@"}

Dots(s) == {k \in 1..Len(s) : Ch(s, k) = "."}

\* re.match(r'^...$', s)
EmailMatches(s) ==
    \E a \in AtSigns(s), d \in Dots(s) : EmailShape(s, 1, a, d, Len(s))

\* re.findall(r'\b...\b', s)[0]: the leftmost start, the greedy domain (the
\* last dot that works) and the greedy top-level domain; None when no match
EmailEnds(s, i) ==
    {e \in Dots(s) \X {j \in 1..Len(s) : Boundary(s, j)} :
        \E a \in AtSigns(s) : EmailShape(s, i, a, e[1], e[2])}

EmailStarts(s) == {i \in 1..Len(s) : Boundary(s, i - 1) /\ EmailEnds(s, i) # {}}

FirstEmail(s) ==
    IF EmailStarts(s) = {} THEN None
    ELSE LET i == Min(EmailStarts(s))
             d == Max({e[1] : e \in EmailEnds(s, i)})
             j == Max({e[2] : e \in {x \in EmailEnds(s, i) : x[1] = d}})
         IN  SubSeq(s, i, j)

\* \b\d{10,15}\b
PhoneAt(s, i, n) ==
    /\ i + n - 1 <= Len(s)
    /\ Boundary(s, i - 1)
    /\ \A k \in i..(i + n - 1) : Ch(s, k) \in Digits
    /\ Boundary(s, i + n - 1)

PhoneStarts(s) == {i \in 1..Len(s) : \E n \in 10..15 : PhoneAt(s, i, n)}

FirstPhone(s) ==
    IF PhoneStarts(s) = {} THEN None
    ELSE LET i == Min(PhoneStarts(s))
             n == Max({m \in 10..15 : PhoneAt(s, i, m)})
         IN  SubSeq(s, i, i + n - 1)

\* \b\d{4}-\d{2}-\d{2}\b
DateAt(s, i) ==
    /\ i + 9 <= Len(s)
    /\ Boundary(s, i - 1)
    /\ \A k \in {i, i + 1, i + 2, i + 3, i + 5, i + 6, i + 8, i + 9} : Ch(s, k) \in Digits
    /\ Ch(s, i + 4) = "-" /\ Ch(s, i + 7) = "-"
    /\ Boundary(s, i + 9)

DateStarts(s) == {i \in 1..Len(s) : DateAt(s, i)}

FirstDate(s) ==
    IF DateStarts(s) = {} THEN None
    ELSE SubSeq(s, Min(DateStarts(s)), Min(DateStarts(s)) + 9)

\* \b\d{1,2}:\d{2}\b with n hour digits
TimeAt(s, i, n) ==
    /\ i + n + 2 <= Len(s)
    /\ Boundary(s, i - 1)
    /\ \A k \in i..(i + n - 1) : Ch(s, k) \in Digits
    /\ Ch(s, i + n) = ":"
    /\ Ch(s, i + n + 1) \in Digits /\ Ch(s, i + n + 2) \in Digits
    /\ Boundary(s, i + n + 2)

TimeStarts(s) == {i \in 1..Len(s) : \E n \in {1, 2} : TimeAt(s, i, n)}

FirstTime(s) ==
    IF TimeStarts(s) = {} THEN None
    ELSE LET i == Min(TimeStarts(s))
             n == Max({m \in {1, 2} : TimeAt(s, i, m)})
         IN  SubSeq(s, i, i + n + 2)

-----------------------------------------------------------------------------
(* BookingFlow: catalog and field extraction                               *)

required_fields == <<"name", "email", "phone", "booking_type", "date", "time">>

\* the keys of service_pricing, in insertion order
ServiceNames ==
    <<"Doctor Appointment", "Salon Service", "Hotel Reservation", "Event Booking",
      "Fitness Class", "Restaurant Reservation", "Travel Booking", "Spa Treatment",
      "Consultation">>

service_pricing ==
    [n \in {ServiceNames[i] : i \in 1..Len(ServiceNames)} |->
        CASE n = "Doctor Appointment"     -> [price |-> 100, message |-> "Your health is our priority!"]
          [] n = "Salon Service"          -> [price |-> 50,  message |-> "Get ready to look fabulous!"]
          [] n = "Hotel Reservation"      -> [price |-> 150, message |-> "Enjoy your comfortable stay!"]
          [] n = "Event Booking"          -> [price |-> 200, message |-> "Let's make your event memorable!"]
          [] n = "Fitness Class"          -> [price |-> 30,  message |-> "Time to get fit and healthy!"]
          [] n = "Restaurant Reservation" -> [price |-> 0,   message |-> "Bon appetit! Enjoy your meal!"]
          [] n = "Travel Booking"         -> [price |-> 500, message |-> "Have an amazing journey!"]
          [] n = "Spa Treatment"          -> [price |-> 120, message |-> "Relax and rejuvenate!"]
          [] n = "Consultation"           -> [price |-> 80,  message |-> "We look forward to helping you!"]]

service_keywords ==
    <<  <<"doctor", "medical", "physician", "healthcare", "clinic", "checkup", "consultation", "appointment">>,
        <<"salon", "haircut", "hair", "beauty", "manicure", "pedicure", "styling">>,
        <<"hotel", "room", "accommodation", "stay", "resort", "lodge">>,
        <<"event", "party", "celebration", "wedding", "conference", "meeting">>,
        <<"fitness", "gym", "workout", "exercise", "yoga", "training", "class">>,
        <<"restaurant", "dining", "dinner", "lunch", "table", "food", "eat">>,
        <<"travel", "trip", "tour", "vacation", "flight", "ticket", "journey">>,
        <<"spa", "massage", "treatment", "therapy", "relaxation", "wellness">>,
        <<"consult", "advice", "guidance", "counseling">>  >>

\* what llm.invoke yields when it raises
LLMFailure == "<LLMFailure>"

\* s.strip(c) for a one-character c
RECURSIVE StripCh(_, _)
StripCh(s, c) ==
    IF s = "" THEN ""
    ELSE IF Ch(s, 1) = c THEN StripCh(SubSeq(s, 2, Len(s)), c)
    ELSE IF Ch(s, Len(s)) = c THEN StripCh(SubSeq(s, 1, Len(s) - 1), c)
    ELSE s

\* a fallback that returns the stripped completion whatever its length
ExtractWithLLMAnyLength(reply) ==
    IF reply = LLMFailure THEN None
    ELSE LET result == StripCh(StripCh(Strip(reply), "\""), "'")
         IN  IF result # "" /\ result # "NOT_FOUND" THEN result ELSE None

\* _extract_with_llm: reply is the completion's content, or LLMFailure
ExtractWithLLM(reply) ==
    IF reply = LLMFailure THEN None
    ELSE LET result == StripCh(StripCh(Strip(reply), "\""), "'")
         IN  IF result # "" /\ result # "NOT_FOUND" /\ Len(result) < 100
             THEN result ELSE None

\* a keyword loop that compares the text as typed, without lower-casing it
KeywordRowsAsTyped(text) ==
    {r \in 1..Len(ServiceNames) : ContainsAny(Strip(text), service_keywords[r])}

\* the keyword loop of _extract_booking_type: the rows that match
KeywordRows(text) ==
    {r \in 1..Len(ServiceNames) : ContainsAny(Lower(Strip(text)), service_keywords[r])}

name_excluded == <<"@", ".com", ":", "-", "0", "1", "2", "3", "4", "5", "6", "7", "8", "9">>

booking_phrases == <<"book", "appointment", "reservation", "schedule", "want", "need", "service">>

\* a name heuristic that looks for the booking phrases in the text as typed
NameCandidateAsTyped(user_message) ==
    LET clean_msg == Strip(user_message)
    IN  IF /\ WordCount(user_message) <= 5
           /\ clean_msg # ""
           /\ ~ContainsAny(clean_msg, name_excluded)
           /\ ~ContainsAny(clean_msg, booking_phrases)
           /\ Len(clean_msg) < 50
           /\ IsAlpha(ReplaceCh(ReplaceCh(clean_msg, " ", ""), "-", ""))
        THEN Title(clean_msg)
        ELSE None

\* the name heuristic of _extract_booking_info (lines 189-195), given that
\* the name is not known yet
NameCandidate(user_message) ==
    LET clean_msg == Strip(user_message)
    IN  IF /\ WordCount(user_message) <= 5
           /\ clean_msg # ""
           /\ ~ContainsAny(clean_msg, name_excluded)
           /\ ~ContainsAny(Lower(clean_msg), booking_phrases)
           /\ Len(clean_msg) < 50
           /\ IsAlpha(ReplaceCh(ReplaceCh(clean_msg, " ", ""), "-", ""))
        THEN Title(clean_msg)
        ELSE None

\* f"{int(time_parts[0]):02d}:{time_parts[1]}" of a \d{1,2}:\d{2} match
PadHour(t) ==
    LET c == Min({i \in 1..Len(t) : Ch(t, i) = ":"})
    IN  Pad2(ToInt(SubSeq(t, 1, c - 1))) \o ":" \o SubSeq(t, c + 1, Len(t))

\* what the regular expressions, the name heuristic and the keyword table
\* find in one utterance, whatever the draft holds
ScanOf(user_message) ==
    [email   |-> FirstEmail(user_message),
     phone   |-> FirstPhone(user_message),
     date    |-> FirstDate(user_message),
     time    |-> IF FirstTime(user_message) = None THEN None
                 ELSE PadHour(FirstTime(user_message)),
     name    |-> NameCandidate(user_message),
     keyword |-> IF KeywordRows(user_message) = {} THEN None
                 ELSE ServiceNames[Min(KeywordRows(user_message))]]

-----------------------------------------------------------------------------
(* The utterances and collaborator answers the model draws from            *)

\* the day the model's clock starts on: the example date of the validator's
\* format message
StartDate == "2025-01-25"

\* what the user of the booking dialogue may type
BookingUtterances ==
    {"i want to book", "al", "x", "a@b.co 9876543210", "spa",
     "2025-01-25", "2026-01-26", "2025-02-30", "9:30", "14:30", "a@b.co 25:00",
     "yes", "no", "cancel my booking"}

\* what the user of the chat page with documents may type
ChatUtterances ==
    {"hi", "what are your hours?", "yes", "i want to book", "al", "x",
     "how do i upload?", "thanks", "a@b.co 9876543210 spa 2025-01-25 14:30"}

\* the six values such a user has in mind; on StartDate each of them passes
\* its validator
Targets ==
    {[name |-> "Al", email |-> "a@b.co", phone |-> "9876543210", booking_type |-> s,
      date |-> "2025-01-26", time |-> t] :
        s \in {"Salon Service", "Fitness Class", "Spa Treatment"}, t \in {"09:30"}}

\* the values of the chosen fields in one utterance, in the order of
\* required_fields from the i-th on
RECURSIVE Said(_, _, _)
Said(target, fields, i) ==
    IF i > Len(required_fields) THEN ""
    ELSE IF required_fields[i] \notin fields THEN Said(target, fields, i + 1)
    ELSE IF Said(target, fields, i + 1) = "" THEN target[required_fields[i]]
    ELSE target[required_fields[i]] \o " " \o Said(target, fields, i + 1)

\* what the cooperative user may say in one turn
SuppliedUtterances ==
    {Said(t, fields, 1) : t \in Targets,
                          fields \in (SUBSET {required_fields[n] : n \in 1..Len(required_fields)}) \ {{}}}

\* utterances that give a time, alone or after a date: the text, the date
\* and the time it holds and the minute of the day of that time
TimedUtterances ==
    {[text |-> "9:30", date |-> None, time |-> "09:30", minute |-> 9 * 60 + 30],
     [text |-> "14:30", date |-> None, time |-> "14:30", minute |-> 14 * 60 + 30],
     [text |-> "2025-01-25 9:30", date |-> "2025-01-25", time |-> "09:30",
      minute |-> 9 * 60 + 30],
     [text |-> "2025-01-26 9:30", date |-> "2025-01-26", time |-> "09:30",
      minute |-> 9 * 60 + 30],
     [text |-> "2025-01-26 14:30", date |-> "2025-01-26", time |-> "14:30",
      minute |-> 14 * 60 + 30]}

\* what is typed into the chat input
TypedUtterances == BookingUtterances \cup ChatUtterances

TenChars == "abcdefghij"

FiftyChars == TenChars \o TenChars \o TenChars \o TenChars \o TenChars

\* a completion of exactly 100 characters
HundredChars == FiftyChars \o FiftyChars

\* utterances with a trigger word: in either case, at either end, as part
\* of a longer word, and with trigger words of two services in both orders
ServiceTexts ==
    {"doctor", "DOCTOR", "Spa then Doctor", "dinner at the hotel", "hotel dinner",
     "treatment", "consultation", "consult", "i need a haircut", "yoga class",
     "wedding party", "flight ticket", "massage", "Book a Table", "great trip", "advice"}

\* utterances without any trigger word
PlainTexts ==
    {"al", "x", "dentist", "i want to book", "hi", "2025-01-26", "a@b.co", "teeth",
     "tattoo", "plumber", "car wash", ""}

\* the service names as the service question lists them, typed as they are
CatalogTexts == {ServiceNames[n] : n \in 1..Len(ServiceNames)}

\* utterances for the name heuristic, each with what str.title() makes of
\* it once stripped: names of one to six words, in either case, with
\* spaces around, of 49 and of 50 characters, with each excluded character
\* and with booking phrases inside
NameTexts ==
    {[text |-> "al", titled |-> "Al"],
     [text |-> "x", titled |-> "X"],
     [text |-> "hi", titled |-> "Hi"],
     [text |-> "AL BO", titled |-> "Al Bo"],
     [text |-> " al ", titled |-> "Al"],
     [text |-> "mary ann lee", titled |-> "Mary Ann Lee"],
     [text |-> "a b c d e", titled |-> "A B C D E"],
     [text |-> "a b c d e f", titled |-> "A B C D E F"],
     [text |-> SubSeq(FiftyChars, 1, 49), titled |-> "A" \o SubSeq(FiftyChars, 2, 49)],
     [text |-> FiftyChars, titled |-> "A" \o SubSeq(FiftyChars, 2, 50)],
     [text |-> "", titled |-> ""],
     [text |-> "  ", titled |-> ""],
     [text |-> "al2", titled |-> "Al2"],
     [text |-> "a@b", titled |-> "A@B"],
     [text |-> "al.com", titled |-> "Al.Com"],
     [text |-> "al:bo", titled |-> "Al:Bo"],
     [text |-> "al-bo", titled |-> "Al-Bo"],
     [text |-> "o'neil", titled |-> "O'Neil"],
     [text |-> "al!", titled |-> "Al!"],
     [text |-> "al\nbo", titled |-> "Al\nBo"],
     [text |-> "bookman", titled |-> "Bookman"],
     [text |-> "Wanted", titled |-> "Wanted"],
     [text |-> "i NEED al", titled |-> "I Need Al"],
     [text |-> "servicemen", titled |-> "Servicemen"],
     [text |-> "mr schedule", titled |-> "Mr Schedule"]}

\* utterances that hold an email address or a run of digits, well-formed
\* or not, each with the email and the phone that re.findall yields first
\* (None: no match)
ContactTexts ==
    {[text |-> "a@b.co", email |-> "a@b.co", phone |-> None],
     [text |-> "mail al.bo+x@mail.example.org ok", email |-> "al.bo+x@mail.example.org",
      phone |-> None],
     [text |-> "a@b.co!", email |-> "a@b.co", phone |-> None],
     [text |-> "a@b.co|x", email |-> "a@b.co|x", phone |-> None],
     [text |-> "a@b", email |-> None, phone |-> None],
     [text |-> "a@b.c", email |-> None, phone |-> None],
     [text |-> "a@@b.co", email |-> None, phone |-> None],
     [text |-> "a@b.co_", email |-> None, phone |-> None],
     [text |-> "9876543210", email |-> None, phone |-> "9876543210"],
     [text |-> "123456789", email |-> None, phone |-> None],
     [text |-> "123456789012345", email |-> None, phone |-> "123456789012345"],
     [text |-> "1234567890123456", email |-> None, phone |-> None],
     [text |-> "987-654-3210", email |-> None, phone |-> None],
     [text |-> "+919876543210", email |-> None, phone |-> "919876543210"],
     [text |-> "a9876543210", email |-> None, phone |-> None],
     [text |-> "a@b 12345", email |-> None, phone |-> None],
     [text |-> "a@b.co 9876543210", email |-> "a@b.co", phone |-> "9876543210"],
     [text |-> "a@b 25:00", email |-> None, phone |-> None]}

\* the utterances of the direct calls of the extraction
DirectCallTexts ==
    ServiceTexts \cup PlainTexts \cup CatalogTexts
        \cup {nt.text : nt \in NameTexts} \cup {ct.text : ct \in ContactTexts}

Utterances ==
    TypedUtterances \cup SuppliedUtterances \cup {tu.text : tu \in TimedUtterances}
        \cup DirectCallTexts

\* what the completion call of _extract_with_llm may come back with
BookingTypeReplies == {LLMFailure, "NOT_FOUND", "\"Salon Service\"", "Dental Checkup"}

ScanTable == [u \in Utterances |-> ScanOf(u)]

Scanned(user_message) ==
    IF user_message \in Utterances THEN ScanTable[user_message] ELSE ScanOf(user_message)

\* whether _extract_booking_type reaches the completion call
CallsLLM(text) == Scanned(text).keyword = None

\* lines 220-223: the first row with a keyword in the text, else the
\* completion's answer
TypeOr(keyword, reply) == IF keyword # None THEN keyword ELSE ExtractWithLLM(reply)

\* _extract_booking_type
ExtractBookingType(text, reply) == TypeOr(Scanned(text).keyword, reply)

PutIf(d, cond, k, v) == IF cond THEN Put(d, k, v) ELSE d

\* lines 165-202: sc is what the patterns find in the message, known the
\* keys of existing_data, booking_type what _extract_booking_type returns
Extracted(sc, known, booking_type) ==
    PutIf(PutIf(PutIf(PutIf(PutIf(PutIf(EmptyDict,
        sc.email # None /\ "email" \notin known, "email", sc.email),
        sc.phone # None /\ "phone" \notin known, "phone", sc.phone),
        sc.date # None /\ "date" \notin known, "date", sc.date),
        sc.time # None /\ "time" \notin known, "time", sc.time),
        "name" \notin known /\ sc.name # None, "name", sc.name),
        "booking_type" \notin known /\ booking_type # None, "booking_type", booking_type)

\* an extraction that does not look at existing_data: it emits every field it
\* finds
ExtractOverwrites(user_message, existing_data, reply) ==
    Extracted(Scanned(user_message), {}, ExtractBookingType(user_message, reply))

\* _extract_booking_info; reply is what the completion call yields if made
ExtractBookingInfo(user_message, existing_data, reply) ==
    Extracted(Scanned(user_message), DOMAIN existing_data,
              ExtractBookingType(user_message, reply))

-----------------------------------------------------------------------------
(* BookingFlow._validate_extracted_data                                    *)

\* int(x): optional surrounding whitespace and sign, then digits
IntBody(x) ==
    LET t == Strip(x)
    IN  IF t # "" /\ Ch(t, 1) \in {"+", "-"} THEN SubSeq(t, 2, Len(t)) ELSE t

IntParses(x) == IsDigit(IntBody(x))

IntValue(x) ==
    IF Strip(x) # "" /\ Ch(Strip(x), 1) = "-" THEN 0 - ToInt(IntBody(x)) ELSE ToInt(IntBody(x))

\* time_str.split(':')
Colons(t) == {i \in 1..Len(t) : Ch(t, i) = ":"}

SplitHour(t) == SubSeq(t, 1, Min(Colons(t)) - 1)

SplitMinute(t) ==
    LET c == Min(Colons(t))
        rest == {i \in Colons(t) : i > c}
    IN  SubSeq(t, c + 1, IF rest = {} THEN Len(t) ELSE Min(rest) - 1)

EmailError(email) ==
    IF EmailMatches(email) THEN None
    ELSE "'" \o email \o "' is not valid. Use format: name@example.com"

\* a phone check that wants eleven digits at least
PhoneErrorElevenDigits(phone) ==
    LET p == ReplaceCh(ReplaceCh(ReplaceCh(ReplaceCh(ReplaceCh(phone,
                 " ", ""), "-", ""), "(", ""), ")", ""), "+", "")
    IN  IF ~IsDigit(p) \/ Len(p) < 11 \/ Len(p) > 15
        THEN "'" \o phone \o "' is not valid. Provide 10-15 digits"
        ELSE None

PhoneError(phone) ==
    LET p == ReplaceCh(ReplaceCh(ReplaceCh(ReplaceCh(ReplaceCh(phone,
                 " ", ""), "-", ""), "(", ""), ")", ""), "+", "")
    IN  IF ~IsDigit(p) \/ Len(p) < 10 \/ Len(p) > 15
        THEN "'" \o phone \o "' is not valid. Provide 10-15 digits"
        ELSE None

\* a date check without the test against today + 365
DateErrorNoUpperLimit(date_str, today) ==
    IF ~DateParses(date_str)
    THEN "'" \o date_str \o "' is invalid. Use YYYY-MM-DD (e.g., 2025-01-25)"
    ELSE IF DateOrdinal(date_str) < today
    THEN "'" \o date_str \o "' is " \o ToStr(today - DateOrdinal(date_str))
             \o " day(s) in the past. Choose a future date"
    ELSE None

\* a date check that takes the day 365 days ahead as too far
DateErrorRejectsLastDay(date_str, today) ==
    IF ~DateParses(date_str)
    THEN "'" \o date_str \o "' is invalid. Use YYYY-MM-DD (e.g., 2025-01-25)"
    ELSE IF DateOrdinal(date_str) < today
    THEN "'" \o date_str \o "' is " \o ToStr(today - DateOrdinal(date_str))
             \o " day(s) in the past. Choose a future date"
    ELSE IF DateOrdinal(date_str) >= today + 365
    THEN "'" \o date_str \o "' is too far ahead. Book within the next year"
    ELSE None

\* lines 101-116; today is the ordinal of datetime.now()'s date.  The two
\* range tests exclude each other, so the later assignment never overwrites
DateError(date_str, today) ==
    IF ~DateParses(date_str)
    THEN "'" \o date_str \o "' is invalid. Use YYYY-MM-DD (e.g., 2025-01-25)"
    ELSE IF DateOrdinal(date_str) < today
    THEN "'" \o date_str \o "' is " \o ToStr(today - DateOrdinal(date_str))
             \o " day(s) in the past. Choose a future date"
    ELSE IF DateOrdinal(date_str) > today + 365
    THEN "'" \o date_str \o "' is too far ahead. Book within the next year"
    ELSE None

\* a range check that tests the time against the clock on every date
RangeCheckAnyDay(time_str, hours, mins, date_str, today, now) ==
    IF hours < 0 \/ hours > 23
    THEN [error |-> "'" \o time_str \o "' has invalid hours. Use 00-23", value |-> time_str]
    ELSE IF mins < 0 \/ mins > 59
    THEN [error |-> "'" \o time_str \o "' has invalid minutes. Use 00-59", value |-> time_str]
    ELSE IF /\ date_str # None
            /\ DateParses(date_str)
            /\ hours * 60 + mins < now
    THEN [error |-> "'" \o Pad2(hours) \o ":" \o Pad2(mins) \o "' has passed. Choose a future time",
          value |-> Pad2(hours) \o ":" \o Pad2(mins)]
    ELSE [error |-> None, value |-> Pad2(hours) \o ":" \o Pad2(mins)]

\* lines 118-153: the error (or None) and the value extracted_data['time']
\* holds afterwards; date_str is extracted_data.get('date') or
\* existing_data.get('date'), None when neither holds one; now is the
\* minute of the day the clock shows
RangeCheck(time_str, hours, mins, date_str, today, now) ==
    IF hours < 0 \/ hours > 23
    THEN [error |-> "'" \o time_str \o "' has invalid hours. Use 00-23", value |-> time_str]
    ELSE IF mins < 0 \/ mins > 59
    THEN [error |-> "'" \o time_str \o "' has invalid minutes. Use 00-59", value |-> time_str]
    ELSE IF /\ date_str # None
            /\ DateParses(date_str)
            /\ DateOrdinal(date_str) = today
            /\ hours * 60 + mins < now
    THEN [error |-> "'" \o Pad2(hours) \o ":" \o Pad2(mins) \o "' has passed. Choose a future time",
          value |-> Pad2(hours) \o ":" \o Pad2(mins)]
    ELSE [error |-> None, value |-> Pad2(hours) \o ":" \o Pad2(mins)]

TimeCheck(time_str, date_str, today, now) ==
    IF Colons(time_str) = {}
    THEN [error |-> "'" \o time_str \o "' is invalid. Use HH:MM (e.g., 14:30)",
          value |-> time_str]
    ELSE IF ~IntParses(SplitHour(time_str)) \/ ~IntParses(SplitMinute(time_str))
    THEN [error |-> "'" \o time_str \o "' is invalid. Use HH:MM format (e.g., 14:30)",
          value |-> time_str]
    ELSE RangeCheck(time_str, IntValue(SplitHour(time_str)), IntValue(SplitMinute(time_str)),
                    date_str, today, now)

NameError(raw) ==
    LET name == Strip(raw)
    IN  IF Len(name) < 2 THEN "Name is too short. Provide your full name"
        ELSE IF Len(name) > 100 THEN "Name is too long"
        ELSE None

\* the date the time check reads
KnownDate(extracted_data, existing_data) ==
    IF "date" \in DOMAIN extracted_data THEN extracted_data["date"]
    ELSE Get(existing_data, "date", None)

\* a validation that tests the time of the draft against the clock when
\* the date arrives
ValidationErrorsOnStoredTime(extracted_data, existing_data, today, now) ==
    LET has(f) == f \in DOMAIN extracted_data
        item(f, e) == IF e = None THEN <<>> ELSE << <<f, e>> >>
    IN     (IF has("email") THEN item("email", EmailError(extracted_data["email"])) ELSE <<>>)
        \o (IF has("phone") THEN item("phone", PhoneError(extracted_data["phone"])) ELSE <<>>)
        \o (IF has("date") THEN item("date", DateError(extracted_data["date"], today)) ELSE <<>>)
        \o (IF has("time")
            THEN item("time", TimeCheck(extracted_data["time"],
                                        KnownDate(extracted_data, existing_data),
                                        today, now).error)
            ELSE IF has("date") /\ "time" \in DOMAIN existing_data
            THEN item("time", TimeCheck(existing_data["time"], extracted_data["date"],
                                        today, now).error)
            ELSE <<>>)
        \o (IF has("name") THEN item("name", NameError(extracted_data["name"])) ELSE <<>>)

\* a validation that returns at the first failing field
ValidationErrorsFirstOnly(extracted_data, existing_data, today, now) ==
    LET has(f) == f \in DOMAIN extracted_data
        item(f, e) == IF e = None THEN <<>> ELSE << <<f, e>> >>
        all ==    (IF has("email") THEN item("email", EmailError(extracted_data["email"])) ELSE <<>>)
               \o (IF has("phone") THEN item("phone", PhoneError(extracted_data["phone"])) ELSE <<>>)
               \o (IF has("date") THEN item("date", DateError(extracted_data["date"], today)) ELSE <<>>)
               \o (IF has("time")
                   THEN item("time", TimeCheck(extracted_data["time"],
                                               KnownDate(extracted_data, existing_data),
                                               today, now).error)
                   ELSE <<>>)
               \o (IF has("name") THEN item("name", NameError(extracted_data["name"])) ELSE <<>>)
    IN  IF all = <<>> THEN <<>> ELSE <<all[1]>>

\* the errors dict as the sequence of its (field, message) items, in
\* insertion order: email, phone, date, time, name
ValidationErrors(extracted_data, existing_data, today, now) ==
    LET has(f) == f \in DOMAIN extracted_data
        item(f, e) == IF e = None THEN <<>> ELSE << <<f, e>> >>
    IN     (IF has("email") THEN item("email", EmailError(extracted_data["email"])) ELSE <<>>)
        \o (IF has("phone") THEN item("phone", PhoneError(extracted_data["phone"])) ELSE <<>>)
        \o (IF has("date") THEN item("date", DateError(extracted_data["date"], today)) ELSE <<>>)
        \o (IF has("time")
            THEN item("time", TimeCheck(extracted_data["time"],
                                        KnownDate(extracted_data, existing_data),
                                        today, now).error)
            ELSE <<>>)
        \o (IF has("name") THEN item("name", NameError(extracted_data["name"])) ELSE <<>>)

\* extracted_data as _validate_extracted_data leaves it (line 133 rewrites
\* the time in place)
AfterValidation(extracted_data, existing_data, today, now) ==
    IF "time" \in DOMAIN extracted_data
    THEN Put(extracted_data, "time",
             TimeCheck(extracted_data["time"], KnownDate(extracted_data, existing_data),
                       today, now).value)
    ELSE extracted_data

-----------------------------------------------------------------------------
(* BookingFlow: the texts of the slot-filling dialogue                     *)

\* date.fromordinal(n).strftime('%Y-%m-%d')
YearOf(n) ==
    CHOOSE y \in (n \div 366)..((n \div 365) + 1) :
        ToOrdinal(y, 1, 1) <= n /\ n < ToOrdinal(y + 1, 1, 1)

MonthOf(n) ==
    CHOOSE m \in 1..12 :
        ToOrdinal(YearOf(n), m, 1) <= n /\ n <= ToOrdinal(YearOf(n), m, DaysInMonth(YearOf(n), m))

Pad4(n) == IF n < 10 THEN "000" \o ToStr(n)
           ELSE IF n < 100 THEN "00" \o ToStr(n)
           ELSE IF n < 1000 THEN "0" \o ToStr(n) ELSE ToStr(n)

DateString(n) ==
    Pad4(YearOf(n)) \o "-" \o Pad2(MonthOf(n)) \o "-"
        \o Pad2(n - ToOrdinal(YearOf(n), MonthOf(n), 1) + 1)

\* field.replace('_', ' ')
Spaced(field) == ReplaceCh(field, "_", " ")

\* f"${price}" if price > 0 else "Free"
PriceString(price) == IF price > 0 THEN "$" \o ToStr(price) ELSE "Free"

\* self.service_pricing.get(service, {}).get('price', 0)
PriceOf(service) ==
    IF service \in DOMAIN service_pricing THEN service_pricing[service].price ELSE 0

\* self.service_pricing.get(service, {}).get('message', 'Thank you for booking!')
MessageOf(service) ==
    IF service \in DOMAIN service_pricing THEN service_pricing[service].message
    ELSE "Thank you for booking!"

\* a field counts as collected when it is in the draft and not empty
Filled(booking_data, f) == f \in DOMAIN booking_data /\ booking_data[f] # ""

\* the fields of required_fields, in order, that satisfy keep
RECURSIVE FilterFields(_, _, _)
FilterFields(fields, booking_data, keepFilled) ==
    IF fields = <<>> THEN <<>>
    ELSE (IF Filled(booking_data, Head(fields)) = keepFilled THEN <<Head(fields)>> ELSE <<>>)
            \o FilterFields(Tail(fields), booking_data, keepFilled)

\* line 78
MissingFields(booking_data) == FilterFields(required_fields, booking_data, FALSE)

\* the collected fields, the last of the fixed order first
CollectedFieldsBackwards(booking_data) ==
    LET kept == FilterFields(required_fields, booking_data, TRUE)
    IN  [n \in 1..Len(kept) |-> kept[Len(kept) + 1 - n]]

\* line 261
CollectedFields(booking_data) == FilterFields(required_fields, booking_data, TRUE)

\* lines 61-64
RECURSIVE ErrorBullets(_)
ErrorBullets(errors) ==
    IF errors = <<>> THEN ""
    ELSE "* **" \o Title(Spaced(Head(errors)[1])) \o "**: " \o Head(errors)[2] \o "\n"
            \o ErrorBullets(Tail(errors))

ErrorResponse(errors) ==
    "I found some issues:\n\n" \o ErrorBullets(errors)
        \o "\nPlease provide the correct " \o Spaced(errors[1][1]) \o "."

RECURSIVE SummaryLines(_, _)
SummaryLines(fields, booking_data) ==
    IF fields = <<>> THEN ""
    ELSE Title(Spaced(Head(fields))) \o ": **" \o booking_data[Head(fields)] \o "**\n"
            \o SummaryLines(Tail(fields), booking_data)

RECURSIVE ServiceLines(_)
ServiceLines(n) ==
    IF n = 0 THEN ""
    ELSE ServiceLines(n - 1) \o "**" \o ServiceNames[n] \o "** - "
            \o PriceString(service_pricing[ServiceNames[n]].price) \o "\n"

OpeningLine == "Great! Let's make a booking. What's your name?"

\* the question of _ask_for_missing_info for one field (lines 284-329)
Question(field, today) ==
    CASE field = "name"  -> "What's your name?"
      [] field = "email" -> "What's your email address?\n*Example: john.doe@gmail.com*"
      [] field = "phone" -> "What's your phone number?\n*Example: 9876543210*"
      [] field = "booking_type" ->
            "What service would you like?\n\n**Available Services:**\n"
                \o ServiceLines(Len(ServiceNames))
                \o "\n*Type the service name (e.g., 'Doctor', 'Salon')*"
      [] field = "date" ->
            "What date?\n\n**Format:** YYYY-MM-DD\n**Quick picks:**\n* Today: "
                \o DateString(today) \o "\n* Tomorrow: " \o DateString(today + 1) \o "\n"
      [] field = "time" ->
            "What time?\n\n**Format:** HH:MM (24-hour)\n**Examples:** 09:00, 14:30, 18:00\n"
      [] OTHER -> "Please provide " \o Spaced(field) \o "."

\* a prompt that asks for the name whatever is missing
AskForName(missing_fields, booking_data, today) == OpeningLine

\* _ask_for_missing_info
AskForMissingInfo(missing_fields, booking_data, today) ==
    IF Len(missing_fields) = Len(required_fields) THEN OpeningLine
    ELSE (IF CollectedFields(booking_data) # <<>>
          THEN "**Information collected:**\n"
                  \o SummaryLines(CollectedFields(booking_data), booking_data) \o "\n"
          ELSE "")
            \o Question(missing_fields[1], today)

\* _generate_confirmation_message; booking_data.get(f) of an absent field
\* prints as None
GenerateConfirmationMessage(booking_data) ==
    "**Perfect! Confirm your booking:**\n\n"
        \o "**Name:** " \o Get(booking_data, "name", "None") \o "\n"
        \o "**Email:** " \o Get(booking_data, "email", "None") \o "\n"
        \o "**Phone:** " \o Get(booking_data, "phone", "None") \o "\n"
        \o "**Service:** " \o Get(booking_data, "booking_type", "None") \o "\n"
        \o "**Price:** " \o Get(booking_data, "pricing", "None") \o "\n"
        \o "**Date:** " \o Get(booking_data, "date", "None") \o "\n"
        \o "**Time:** " \o Get(booking_data, "time", "None") \o "\n\n"
        \o "Reply **'yes'** to confirm\n"
        \o "Reply **'no'** to restart"

\* lines 368-374
ConfirmedHead(booking_data, booking_id) ==
    "**BOOKING CONFIRMED!**\n\n"
        \o "**Booking ID:** " \o ToStr(booking_id) \o "\n"
        \o "**Service:** " \o Get(booking_data, "booking_type", "") \o "\n"
        \o "**Date:** " \o Get(booking_data, "date", "None") \o " at "
        \o Get(booking_data, "time", "None") \o "\n"
        \o "**Total:** " \o Get(booking_data, "pricing", "None") \o "\n\n"

\* lines 376-379
EmailLine(booking_data, email_sent) ==
    IF email_sent
    THEN "**Confirmation email sent to:**\n   " \o Get(booking_data, "email", "None") \o "\n\n"
    ELSE "*Email could not be sent, but booking is saved*\n\n"

\* lines 381-383
ConfirmedTail(booking_data) ==
    "**" \o MessageOf(Get(booking_data, "booking_type", "")) \o "**\n\n"
        \o "*Your booking is confirmed. You're all set! No hassle, everything handled.*\n\n"
        \o "Need anything else? Just ask!"

SaveFailedResponse(result) == "Error: " \o result \o "\n\nPlease try again."

RestartPrompt == "No problem! Let's start fresh. What service would you like to book?"

YesNoPrompt == "Please reply **'yes'** to confirm or **'no'** to restart."

-----------------------------------------------------------------------------
(* BookingDatabase.create_booking, send_booking_email, _save_booking       *)

\* AUTOINCREMENT key of the next row (no modelled operation deletes rows)
NextCustomerId(customers) ==
    IF customers = <<>> THEN 1
    ELSE Max({customers[i].customer_id : i \in 1..Len(customers)}) + 1

NextBookingId(bookings) ==
    IF bookings = <<>> THEN 1
    ELSE Max({bookings[i].id : i \in 1..Len(bookings)}) + 1

\* SELECT customer_id FROM customers WHERE email = ?
CustomerRows(customers, email) == {i \in 1..Len(customers) : customers[i].email = email}

\* the tables after a create_booking that commits, and the id it returns
CreateBooking(customers, bookings, name, email, phone, booking_type, date, time) ==
    LET found == CustomerRows(customers, email)
        customer_id == IF found # {} THEN customers[Min(found)].customer_id
                       ELSE NextCustomerId(customers)
        customers2 ==
            IF found # {}
            THEN [i \in 1..Len(customers) |->
                    IF customers[i].customer_id = customer_id
                    THEN [customers[i] EXCEPT !.name = name, !.phone = phone]
                    ELSE customers[i]]
            ELSE Append(customers, [customer_id |-> customer_id, name |-> name,
                                    email |-> email, phone |-> phone])
        booking_id == NextBookingId(bookings)
    IN  [customers |-> customers2,
         bookings  |-> Append(bookings, [id |-> booking_id, customer_id |-> customer_id,
                                         booking_type |-> booking_type, date |-> date,
                                         time |-> time, status |-> "confirmed"]),
         booking_id |-> booking_id]

\* the message of the exception create_booking raises after its rollback
StoreErrorText == "Error creating booking: database is locked"

\* the re-validation of _save_booking (lines 397-407): the error it returns,
\* or None when the draft may be written
RECURSIVE FirstUnfilled(_, _)
FirstUnfilled(fields, booking_data) ==
    IF fields = <<>> THEN None
    ELSE IF ~Filled(booking_data, Head(fields)) THEN Head(fields)
    ELSE FirstUnfilled(Tail(fields), booking_data)

Revalidation(booking_data) ==
    IF FirstUnfilled(required_fields, booking_data) # None
    THEN "Missing: " \o FirstUnfilled(required_fields, booking_data)
    ELSE IF ~EmailMatches(booking_data["email"]) THEN "Invalid email"
    ELSE IF ~DateParses(booking_data["date"]) THEN "Invalid date"
    ELSE None

\* lines 409-418: done is what a create_booking that commits leaves
Stored(done) ==
    [success |-> TRUE, result |-> ToStr(done.booking_id), booking_id |-> done.booking_id,
     create_calls |-> 1, customers |-> done.customers, bookings |-> done.bookings]

\* lines 419-420
NotStored(result, create_calls, customers, bookings) ==
    [success |-> FALSE, result |-> result, booking_id |-> 0,
     create_calls |-> create_calls, customers |-> customers, bookings |-> bookings]

\* a save that calls create_booking a second time
SaveBookingStoresTwice(booking_data, customers, bookings, store_ok) ==
    [success |-> store_ok, result |-> IF store_ok THEN "1" ELSE StoreErrorText,
     booking_id |-> 1, create_calls |-> 2, customers |-> customers, bookings |-> bookings]

\* _save_booking: (success, result), the number of create_booking calls it
\* made and the tables afterwards; store_ok says whether create_booking
\* commits (otherwise it rolls back and raises)
SaveBooking(booking_data, customers, bookings, store_ok) ==
    IF Revalidation(booking_data) # None
    THEN NotStored(Revalidation(booking_data), 0, customers, bookings)
    ELSE IF ~store_ok
    THEN NotStored(StoreErrorText, 1, customers, bookings)
    ELSE Stored(CreateBooking(customers, bookings,
                              booking_data["name"], booking_data["email"],
                              booking_data["phone"], booking_data["booking_type"],
                              booking_data["date"], booking_data["time"]))

\* send_booking_email: smtp_ok says that credentials are configured and the
\* SMTP exchange raises nothing; every failure inside is caught (line 146)
SendBookingEmail(booking_data, booking_id, smtp_ok) ==
    smtp_ok /\ Get(booking_data, "email", "") # ""

-----------------------------------------------------------------------------
(* BookingFlow._handle_confirmation and handle_booking_intent              *)

affirmative_words == <<"yes", "confirm", "correct", "ok", "okay", "sure", "yep", "yeah">>

negative_words == <<"no", "cancel", "stop", "restart", "nope">>

ReplyTable ==
    [u \in TypedUtterances |->
        [affirmative |-> ContainsAny(Lower(Strip(u)), affirmative_words),
         negative    |-> ContainsAny(Lower(Strip(u)), negative_words)]]

\* line 355
IsAffirmative(user_message) ==
    IF user_message \in TypedUtterances THEN ReplyTable[user_message].affirmative
    ELSE ContainsAny(Lower(Strip(user_message)), affirmative_words)

\* line 389
IsNegative(user_message) ==
    IF user_message \in TypedUtterances THEN ReplyTable[user_message].negative
    ELSE ContainsAny(Lower(Strip(user_message)), negative_words)

\* what one call leaves behind besides its return value
Effects(customers, bookings, create_calls, save_ok, booking_id, email_sent) ==
    [customers |-> customers, bookings |-> bookings, create_calls |-> create_calls,
     save_ok |-> save_ok, booking_id |-> booking_id, email_sent |-> email_sent,
     rejected |-> FALSE]

\* what a call leaves behind when it stores nothing
NoEffects(customers, bookings) == Effects(customers, bookings, 0, FALSE, 0, FALSE)

\* what a call leaves behind when validation reported errors
Rejected(customers, bookings) == [NoEffects(customers, bookings) EXCEPT !.rejected = TRUE]

\* a confirmation that reports a failure and keeps the draft when the email
\* was not sent
ConfirmedOnlyIfEmailed(booking_data, saved, email_sent) ==
    [response |-> IF email_sent
                  THEN ConfirmedHead(booking_data, saved.booking_id)
                          \o EmailLine(booking_data, email_sent) \o ConfirmedTail(booking_data)
                  ELSE SaveFailedResponse("Email could not be sent"),
     booking_data |-> IF email_sent THEN EmptyDict ELSE booking_data,
     awaiting |-> ~email_sent, complete |-> email_sent,
     effects |-> Effects(saved.customers, saved.bookings, saved.create_calls, TRUE,
                         saved.booking_id, email_sent)]

\* a confirmation after which the draft and the flag stay as they were
ConfirmedKeepsSession(booking_data, saved, email_sent) ==
    [response |-> ConfirmedHead(booking_data, saved.booking_id)
                    \o EmailLine(booking_data, email_sent) \o ConfirmedTail(booking_data),
     booking_data |-> booking_data, awaiting |-> TRUE, complete |-> FALSE,
     effects |-> Effects(saved.customers, saved.bookings, saved.create_calls, TRUE,
                         saved.booking_id, email_sent)]

\* lines 359-385: the booking is stored; email_sent is what
\* send_booking_email returned
Confirmed(booking_data, saved, email_sent) ==
    [response |-> ConfirmedHead(booking_data, saved.booking_id)
                    \o EmailLine(booking_data, email_sent) \o ConfirmedTail(booking_data),
     booking_data |-> EmptyDict, awaiting |-> FALSE, complete |-> TRUE,
     effects |-> Effects(saved.customers, saved.bookings, saved.create_calls, TRUE,
                         saved.booking_id, email_sent)]

\* a failed save that keeps the draft and stays at the confirmation
NotSavedKeepsDraft(booking_data, saved) ==
    [response |-> SaveFailedResponse(saved.result),
     booking_data |-> booking_data, awaiting |-> TRUE, complete |-> FALSE,
     effects |-> Effects(saved.customers, saved.bookings, saved.create_calls, FALSE, 0, FALSE)]

\* lines 386-387
NotSaved(booking_data, saved) ==
    [response |-> SaveFailedResponse(saved.result),
     booking_data |-> EmptyDict, awaiting |-> FALSE, complete |-> TRUE,
     effects |-> Effects(saved.customers, saved.bookings, saved.create_calls, FALSE, 0, FALSE)]

\* lines 356-387: saved is what _save_booking returned
AfterSave(booking_data, saved, smtp_ok) ==
    IF saved.success
    THEN Confirmed(booking_data, saved, SendBookingEmail(booking_data, saved.booking_id, smtp_ok))
    ELSE NotSaved(booking_data, saved)

\* a confirmation step that restarts on every reply that is not affirmative
HandleConfirmationRestarts(user_message, booking_data, customers, bookings, env) ==
    IF IsAffirmative(user_message)
    THEN AfterSave(booking_data, SaveBooking(booking_data, customers, bookings, env.store_ok),
                   env.smtp_ok)
    ELSE [response |-> RestartPrompt, booking_data |-> EmptyDict, awaiting |-> FALSE,
          complete |-> FALSE, effects |-> NoEffects(customers, bookings)]

\* _handle_confirmation; env holds the collaborators' answers and the clock
\* reading of this call: [reply, store_ok, smtp_ok, today, now]
HandleConfirmation(user_message, booking_data, customers, bookings, env) ==
    IF IsAffirmative(user_message)
    THEN AfterSave(booking_data, SaveBooking(booking_data, customers, bookings, env.store_ok),
                   env.smtp_ok)
    ELSE IF IsNegative(user_message)
    THEN [response |-> RestartPrompt, booking_data |-> EmptyDict, awaiting |-> FALSE,
          complete |-> FALSE, effects |-> NoEffects(customers, bookings)]
    ELSE [response |-> YesNoPrompt, booking_data |-> booking_data, awaiting |-> TRUE,
          complete |-> FALSE, effects |-> NoEffects(customers, bookings)]

\* a pricing step that prices the services of the catalog only
WithPricingOfCatalog(booking_data) ==
    IF /\ "booking_type" \in DOMAIN booking_data
       /\ "pricing" \notin DOMAIN booking_data
       /\ booking_data["booking_type"] \in DOMAIN service_pricing
    THEN Put(booking_data, "pricing", PriceString(PriceOf(booking_data["booking_type"])))
    ELSE booking_data

\* lines 70-76
WithPricing(booking_data) ==
    IF "booking_type" \in DOMAIN booking_data /\ "pricing" \notin DOMAIN booking_data
    THEN Put(booking_data, "pricing", PriceString(PriceOf(booking_data["booking_type"])))
    ELSE booking_data

\* a last step that asks for confirmation while one field is still missing
AskOrConfirmOneShort(merged, missing_fields, customers, bookings, today) ==
    IF Len(missing_fields) > 1
    THEN [response |-> AskForMissingInfo(missing_fields, merged, today),
          booking_data |-> merged, awaiting |-> FALSE, complete |-> FALSE,
          effects |-> NoEffects(customers, bookings)]
    ELSE [response |-> GenerateConfirmationMessage(merged), booking_data |-> merged,
          awaiting |-> TRUE, complete |-> FALSE, effects |-> NoEffects(customers, bookings)]

\* lines 78-86: merged is the draft after the update and the pricing
AskOrConfirm(merged, missing_fields, customers, bookings, today) ==
    IF missing_fields # <<>>
    THEN [response |-> AskForMissingInfo(missing_fields, merged, today),
          booking_data |-> merged, awaiting |-> FALSE, complete |-> FALSE,
          effects |-> NoEffects(customers, bookings)]
    ELSE [response |-> GenerateConfirmationMessage(merged), booking_data |-> merged,
          awaiting |-> TRUE, complete |-> FALSE, effects |-> NoEffects(customers, bookings)]

\* lines 78-79
Ask(merged, customers, bookings, today) ==
    AskOrConfirm(merged, MissingFields(merged), customers, bookings, today)

\* a merge that updates the draft before it reports the errors
MergeDespiteErrors(validation_errors, extracted_data, booking_data, customers, bookings, today) ==
    IF validation_errors # <<>>
    THEN [response |-> ErrorResponse(validation_errors),
          booking_data |-> WithPricing(Update(booking_data, extracted_data)),
          awaiting |-> FALSE, complete |-> FALSE, effects |-> Rejected(customers, bookings)]
    ELSE Ask(WithPricing(Update(booking_data, extracted_data)), customers, bookings, today)

\* a merge that throws the draft away when it reports errors
MergeDropsDraftOnErrors(validation_errors, extracted_data, booking_data, customers, bookings, today) ==
    IF validation_errors # <<>>
    THEN [response |-> ErrorResponse(validation_errors), booking_data |-> EmptyDict,
          awaiting |-> FALSE, complete |-> FALSE, effects |-> Rejected(customers, bookings)]
    ELSE Ask(WithPricing(Update(booking_data, extracted_data)), customers, bookings, today)

\* lines 60-76: validation_errors and extracted_data as
\* _validate_extracted_data leaves them
Merge(validation_errors, extracted_data, booking_data, customers, bookings, today) ==
    IF validation_errors # <<>>
    THEN [response |-> ErrorResponse(validation_errors), booking_data |-> booking_data,
          awaiting |-> FALSE, complete |-> FALSE, effects |-> Rejected(customers, bookings)]
    ELSE Ask(WithPricing(Update(booking_data, extracted_data)), customers, bookings, today)

\* line 58: extracted_data is what _extract_booking_info returned
Validate(extracted_data, booking_data, customers, bookings, env) ==
    Merge(ValidationErrors(extracted_data, booking_data, env.today, env.now),
          AfterValidation(extracted_data, booking_data, env.today, env.now),
          booking_data, customers, bookings, env.today)

\* lines 57-86
HandleCollecting(user_message, booking_data, customers, bookings, env) ==
    Validate(ExtractBookingInfo(user_message, booking_data, env.reply),
             booking_data, customers, bookings, env)

\* handle_booking_intent: (response, booking_data, awaiting, complete), and
\* what the call did to the tables
HandleBookingIntent(user_message, booking_data, awaiting_confirmation, customers, bookings, env) ==
    IF awaiting_confirmation
    THEN HandleConfirmation(user_message, booking_data, customers, bookings, env)
    ELSE HandleCollecting(user_message, booking_data, customers, bookings, env)

-----------------------------------------------------------------------------
(* ChatLogic: detect_intent, get_general_response, get_rag_response        *)

\* conversation_history[-n:]
LastN(history, n) ==
    IF Len(history) <= n THEN history ELSE SubSeq(history, Len(history) - n + 1, Len(history))

non_booking_phrases ==
    <<"upload", "uploaded", "document", "pdf", "file",
      "hi", "hello", "hey", "good morning", "good afternoon",
      "how are you", "what can you do", "help",
      "thank", "thanks", "bye", "goodbye">>

widget_phrases == <<"use selected date", "use selected time", "selected date", "selected time">>

booking_keywords ==
    <<"book a", "make a booking", "make an appointment",
      "schedule a", "reserve a", "i want to book",
      "i need to book", "i would like to book",
      "book appointment", "make reservation",
      "can i book", "can i schedule">>

\* line 61
asked_markers ==
    <<"your name", "your email", "your phone", "what date", "what time",
      "type of service", "confirm your booking", "is this correct">>

\* lines 93-100
progress_markers ==
    <<"information collected so far", "your name?", "your email", "your phone",
      "what date", "what time", "type of service", "confirm your booking">>

IntentTable ==
    [u \in TypedUtterances |->
        [non_booking |-> ContainsAny(Lower(Strip(u)), non_booking_phrases),
         bare_greeting |-> Lower(Strip(u)) \in {"hi", "hello", "hey"},
         widget |-> ContainsAny(Lower(Strip(u)), widget_phrases),
         booking |-> ContainsAny(Lower(Strip(u)), booking_keywords)]]

IntentFlags(user_message) ==
    IF user_message \in TypedUtterances THEN IntentTable[user_message]
    ELSE LET low == Lower(Strip(user_message))
         IN  [non_booking |-> ContainsAny(low, non_booking_phrases),
              bare_greeting |-> low \in {"hi", "hello", "hey"},
              widget |-> ContainsAny(low, widget_phrases),
              booking |-> ContainsAny(low, booking_keywords)]

\* the indices of the assistant turns of a history
AssistantTurns(history) == {i \in 1..Len(history) : history[i].role = "assistant"}

\* line 188
offer_markers == <<"want to book", "make a booking">>

\* line 190
upload_markers == <<"upload">>

Range(seq) == {seq[n] : n \in 1..Len(seq)}

history_markers ==
    Range(asked_markers) \cup Range(progress_markers) \cup Range(offer_markers)
        \cup Range(upload_markers)

\* the characters, in either case, that one of the markers starts with
marker_heads ==
    {Ch(k, 1) : k \in history_markers} \cup {UpperCh(Ch(k, 1)) : k \in history_markers}

\* k in content.lower() for each marker k, all in one pass: lower() maps
\* character by character, so k is in content.lower() exactly when some
\* slice of content lower-cases to k
MarkersIn(content) ==
    LET starts == {i \in 1..Len(content) : Ch(content, i) \in marker_heads}
    IN  {k \in history_markers :
            \E i \in starts :
                /\ i + Len(k) - 1 <= Len(content)
                /\ \A j \in 1..Len(k) : LowerCh(Ch(content, i + j - 1)) = Ch(k, j)}

\* a reading of conversation_history that looks at every turn of it
SeenWholeHistory(conversation_history) ==
    LET turns == AssistantTurns(conversation_history)
    IN  [nonempty |-> conversation_history # <<>>,
         latest   |-> IF turns = {} THEN {}
                      ELSE MarkersIn(conversation_history[Max(turns)].content),
         any      |-> UNION {MarkersIn(conversation_history[i].content) : i \in turns}]

\* what detect_intent (lines 51-63, 86-102) and get_general_response (lines
\* 181-191) read of conversation_history: whether it is empty, the markers
\* in the latest assistant turn among the last three (none: no such turn),
\* and the markers in any assistant turn among the last three
Seen(conversation_history) ==
    LET recent == LastN(conversation_history, 3)
        turns  == AssistantTurns(recent)
    IN  [nonempty |-> conversation_history # <<>>,
         latest   |-> IF turns = {} THEN {} ELSE MarkersIn(recent[Max(turns)].content),
         any      |-> UNION {MarkersIn(recent[i].content) : i \in turns}]

Meets(found, ks) == found \cap Range(ks) # {}

\* a classifier that does not read the history once the utterance holds
\* no trigger phrase
DetectIntentByPhraseOnly(user_message, seen) ==
    LET f == IntentFlags(user_message)
    IN  IF f.non_booking
        THEN IF seen.nonempty /\ Meets(seen.latest, asked_markers)
             THEN "booking"
             ELSE IF f.bare_greeting THEN "general" ELSE "query"
        ELSE IF f.widget THEN "booking"
        ELSE IF f.booking THEN "booking"
        ELSE "query"

\* a classifier that answers 'general' for every utterance with a
\* non-booking phrase
DetectIntentGeneralForPhrases(user_message, seen) ==
    LET f == IntentFlags(user_message)
    IN  IF f.non_booking
        THEN IF seen.nonempty /\ Meets(seen.latest, asked_markers)
             THEN "booking"
             ELSE "general"
        ELSE IF f.widget THEN "booking"
        ELSE IF f.booking THEN "booking"
        ELSE IF seen.nonempty /\ Meets(seen.any, progress_markers)
        THEN "booking"
        ELSE "query"

\* detect_intent: 'booking', 'query' or 'general'; seen is
\* Seen(conversation_history)
DetectIntent(user_message, seen) ==
    LET f == IntentFlags(user_message)
    IN  IF f.non_booking
        THEN IF seen.nonempty /\ Meets(seen.latest, asked_markers)
             THEN "booking"
             ELSE IF f.bare_greeting THEN "general" ELSE "query"
        ELSE IF f.widget THEN "booking"
        ELSE IF f.booking THEN "booking"
        ELSE IF seen.nonempty /\ Meets(seen.any, progress_markers)
        THEN "booking"
        ELSE "query"

\* what the chat completion (llm.invoke in get_general_response and
\* get_rag_response) may come back with
ChatReplies ==
    {LLMFailure, "We are open 9 to 5.", "Sure, may I have your name?",
     "The paper is about fake image detection."}

\* what rag_pipeline.query may come back with
RagFailure == "<RagFailure>"

RagContexts == {RagFailure, "", "Opening hours: 9 to 5."}

\* an except clause that hands the failure on instead of answering
SorryResponseRaises(e) == LLMFailure

\* lines 170-171 and 257-258
SorryResponse(e) == "Sorry, I encountered an error: " \o e

StartBookingReply == "Great! Let's start your booking. What's your name?"

UseUploaderReply ==
    "Perfect! Please use the file uploader in the sidebar to upload your PDF documents."

WhatToDoReply ==
    "Great! What would you like to do? I can help you with questions about our services or make a booking. Just say 'I want to book' to get started!"

AnythingElseReply ==
    "No problem! Is there anything else I can help you with? Feel free to ask questions or say 'I want to book' if you'd like to make a booking later!"

GreetingReply ==
    "Hello! Welcome to our booking assistant. I'm here to help you!\n\n"
        \o "I can:\n"
        \o "* Answer questions about our services (upload PDFs first)\n"
        \o "* Help you make bookings\n"
        \o "* Provide information and assistance\n\n"
        \o "What would you like to do today?"

WelcomeReply == "You're welcome! Is there anything else I can help you with?"

GoodbyeReply == "Goodbye! Have a great day! Feel free to come back anytime you need help."

UploadStepsReply ==
    "Great! To upload documents:\n"
        \o "1. Look for the file uploader in the sidebar\n"
        \o "2. Select your PDF files\n"
        \o "3. Click 'Process PDFs'\n"
        \o "4. Then you can ask me questions about the content!\n\n"
        \o "Your PDFs should contain service info, pricing, hours, etc."

\* get_general_response; seen is Seen(conversation_history), chat_reply is
\* what the completion yields if called
GetGeneralResponse(user_message, seen, chat_reply) ==
    LET low == Lower(Strip(user_message))
    IN  IF low \in {"yes", "yeah", "yep", "sure", "ok", "okay"}
        THEN IF seen.nonempty /\ Meets(seen.latest, offer_markers)
             THEN StartBookingReply
             ELSE IF seen.nonempty /\ Meets(seen.latest, upload_markers)
             THEN UseUploaderReply
             ELSE WhatToDoReply
        ELSE IF low \in {"no", "nope", "nah", "not really"} THEN AnythingElseReply
        ELSE IF low \in {"hi", "hello", "hey", "good morning", "good afternoon", "good evening"}
        THEN GreetingReply
        ELSE IF ContainsAny(low, <<"thank", "thanks", "thx">>) THEN WelcomeReply
        ELSE IF ContainsAny(low, <<"bye", "goodbye", "see you">>) THEN GoodbyeReply
        ELSE IF ContainsAny(low, <<"upload", "uploaded", "document", "pdf", "file">>)
        THEN UploadStepsReply
        ELSE IF chat_reply = LLMFailure THEN SorryResponse("Connection error.")
        ELSE chat_reply

vague_queries == {"yes", "no", "ok", "okay", "sure", "nope", "yeah", "yep"}

hallucination_indicators ==
    <<"fake image", "detection", "ai-generated", "e-commerce refund",
      "binary classification", "visual explanation">>

NoRelevantInfoReply ==
    "I couldn't find relevant information in the uploaded documents. Could you ask a more specific question? Or say 'I want to book' to make a booking!"

BadDocumentReply ==
    "It looks like the uploaded PDF might not contain booking or service information. "
        \o "Please upload PDFs with:\n"
        \o "* Service descriptions\n"
        \o "* Pricing\n"
        \o "* Business hours\n"
        \o "* Contact information\n\n"
        \o "Or I can help you make a booking! Just say 'I want to book'"

\* get_rag_response; context is what rag_pipeline.query yields
GetRagResponse(query, seen, context, chat_reply) ==
    IF Lower(Strip(query)) \in vague_queries
    THEN GetGeneralResponse(query, seen, chat_reply)
    ELSE IF context = RagFailure THEN SorryResponse("Vector store unavailable")
    ELSE IF context = "" THEN NoRelevantInfoReply
    ELSE IF chat_reply = LLMFailure THEN SorryResponse("Connection error.")
    ELSE IF ContainsAny(Lower(chat_reply), hallucination_indicators) THEN BadDocumentReply
    ELSE chat_reply

\* manage_memory keeps the last MAX_MEMORY_MESSAGES (25) messages.  Every
\* reader of the history modelled here looks at its last three entries only,
\* the last of which is the utterance being answered, so the model keeps
\* MaxKept messages after a turn
MaxKept == 1

ManageMemory(messages) == LastN(messages, MaxKept)

-----------------------------------------------------------------------------
(* main.py: the session and the handlers of the chat page                  *)

VARIABLES
    messages,               \* st.session_state.messages
    booking_data,           \* st.session_state.booking_data, the draft
    awaiting_confirmation,  \* st.session_state.awaiting_confirmation
    pdfs_uploaded,          \* st.session_state.pdfs_uploaded
    customers,              \* the rows of table customers
    bookings,               \* the rows of table bookings
    clock,                  \* datetime.now(), in minutes since StartDate 00:00
    last,                   \* what the latest handler run did (history)
    script,                 \* the user of SpecC1: the values still to supply
    calls                   \* the _save_booking call of each conversation, in flight

vars == <<messages, booking_data, awaiting_confirmation, pdfs_uploaded,
          customers, bookings, clock, last, script, calls>>

\* the days the clock may advance
MaxDays == 1

\* the bookings stored before the session ends
MaxBookings == 1

MinutesPerDay == 24 * 60

\* the clock shows 10:00 whenever it is read
OpeningMinute == 10 * 60

StartOrdinal == DateOrdinal(StartDate)

Today(c) == StartOrdinal + (c \div MinutesPerDay)

Now(c) == c % MinutesPerDay

\* process_widget_selection: suggested_date and suggested_time are set only
\* by the buttons that _ask_for_missing_info draws while a chat input is
\* being answered, a run in which no button reads as clicked, so the session
\* never holds them and the prompt passes unchanged
ProcessWidgetSelection(user_message, suggested_date, suggested_time) ==
    LET user_lower == Lower(user_message)
    IN  IF Contains(user_lower, "selected date") /\ suggested_date # None THEN suggested_date
        ELSE IF Contains(user_lower, "selected time") /\ suggested_time # None THEN suggested_time
        ELSE user_message

UploadHelpReply ==
    "I see you're interested in uploading documents!\n\n"
        \o "To upload PDFs:\n"
        \o "1. Use the file uploader in the left sidebar\n"
        \o "2. Select your PDF files\n"
        \o "3. Click 'Process PDFs'\n"
        \o "4. Then ask me questions about the content!\n\n"
        \o "Upload service brochures, menus, pricing lists, etc."

NoDocumentsReply ==
    "I'd be happy to answer questions about our services! However, I don't have any documents "
        \o "uploaded yet.\n\n"
        \o "**You can:**\n"
        \o "* Upload PDFs in the sidebar to enable Q&A\n"
        \o "* Say 'I want to book' to make a booking\n"
        \o "* Ask general questions about our booking services"

\* a routing test that reads the classifier alone
DelegatesOnIntentOnly(intent, draft, awaiting) == intent = "booking"

\* line 309; the session's draft and flag are looked at first here, which
\* spares reading the history when they decide
Delegates(intent, draft, awaiting) ==
    draft # EmptyDict \/ awaiting \/ intent = "booking"

\* lines 330-365
\* the branch get_general_response takes for an utterance (lines 178-255)
GeneralBranch(user_message) ==
    LET low == Lower(Strip(user_message))
    IN  IF low \in {"yes", "yeah", "yep", "sure", "ok", "okay"} THEN "yes"
        ELSE IF low \in {"no", "nope", "nah", "not really"} THEN "no"
        ELSE IF low \in {"hi", "hello", "hey", "good morning", "good afternoon", "good evening"}
        THEN "greeting"
        ELSE IF ContainsAny(low, <<"thank", "thanks", "thx">>) THEN "thanks"
        ELSE IF ContainsAny(low, <<"bye", "goodbye", "see you">>) THEN "goodbye"
        ELSE IF ContainsAny(low, <<"upload", "uploaded", "document", "pdf", "file">>)
        THEN "upload"
        ELSE "completion"

\* whether generate_response reaches get_general_response: through its
\* last branch (main.py 369), through the yes/no test of the query path
\* without documents (353) or through the vague-query test of
\* get_rag_response (chat_logic.py 111-113)
CallsGeneral(prompt, intent, delegates, uploaded) ==
    /\ ~delegates
    /\ \/ intent # "query"
       \/ /\ uploaded
          /\ Lower(Strip(prompt)) \in vague_queries
       \/ /\ ~uploaded
          /\ ~ContainsAny(Lower(Strip(prompt)), <<"upload", "document", "pdf", "file">>)
          /\ Lower(Strip(prompt)) \in {"yes", "no", "ok", "sure"}

QueryResponse(prompt, seen, uploaded, env) ==
    IF uploaded THEN GetRagResponse(prompt, seen, env.context, env.chat_reply)
    ELSE IF ContainsAny(Lower(Strip(prompt)), <<"upload", "document", "pdf", "file">>)
    THEN UploadHelpReply
    ELSE IF Lower(Strip(prompt)) \in {"yes", "no", "ok", "sure"}
    THEN GetGeneralResponse(prompt, seen, env.chat_reply)
    ELSE NoDocumentsReply

\* lines 316-327: r is what handle_booking_intent returned
Delegated(intent, r) ==
    [intent |-> intent, route |-> "booking", response |-> r.response,
     booking_data |-> IF r.complete THEN EmptyDict ELSE r.booking_data,
     awaiting |-> IF r.complete THEN FALSE ELSE r.awaiting,
     effects |-> r.effects]

\* lines 309-372
Route(prompt, seen, intent, draft, awaiting, uploaded, custs, books, env) ==
    IF Delegates(intent, draft, awaiting)
    THEN Delegated(intent, HandleBookingIntent(prompt, draft, awaiting, custs, books, env))
    ELSE [intent |-> intent,
          route |-> IF intent = "query" THEN "query" ELSE "general",
          response |-> IF intent = "query"
                       THEN QueryResponse(prompt, seen, uploaded, env)
                       ELSE GetGeneralResponse(prompt, seen, env.chat_reply),
          booking_data |-> draft, awaiting |-> awaiting,
          effects |-> NoEffects(custs, books)]

\* generate_response: the response, the session's draft and flag afterwards,
\* and the tables; seen is Seen(st.session_state.messages), which holds the
\* prompt by now
GenerateResponse(prompt, seen, draft, awaiting, uploaded, custs, books, env) ==
    Route(prompt, seen, DetectIntent(prompt, seen), draft, awaiting, uploaded, custs, books, env)

\* last, before any handler has run and after a handler that is no turn
NoTurn ==
    [kind |-> "none", intent |-> None, route |-> None, had_draft |-> FALSE,
     was_awaiting |-> FALSE, affirmative |-> FALSE, negative |-> FALSE,
     rejected |-> FALSE, create_calls |-> 0, save_ok |-> FALSE, booking_id |-> 0,
     email_sent |-> FALSE]

\* last, after a turn: how it was made (kind), what the session held before
\* it, what _handle_confirmation found in the utterance and what the turn did
TurnRecord(kind, prompt, intent, route, effects) ==
    [kind |-> kind, intent |-> intent, route |-> route,
     had_draft |-> booking_data # EmptyDict, was_awaiting |-> awaiting_confirmation,
     affirmative |-> awaiting_confirmation /\ IsAffirmative(prompt),
     negative |-> awaiting_confirmation /\ IsNegative(prompt),
     rejected |-> effects.rejected, create_calls |-> effects.create_calls,
     save_ok |-> effects.save_ok, booking_id |-> effects.booking_id,
     email_sent |-> effects.email_sent]

NoScript == [target |-> EmptyDict, pending |-> {}]

\* the conversations that share the store, each a session of its own
Conversations == {1, 2}

\* a conversation that is not inside _save_booking: made counts its calls
NoCall ==
    [pc |-> "idle", made |-> 0, booking_data |-> EmptyDict, customer_id |-> 0,
     customers |-> <<>>, bookings |-> <<>>]

NoCalls == [c \in Conversations |-> NoCall]

Init ==
    /\ messages = <<>>
    /\ booking_data = EmptyDict
    /\ awaiting_confirmation = FALSE
    /\ pdfs_uploaded = FALSE
    /\ customers = <<>>
    /\ bookings = <<>>
    /\ clock = OpeningMinute
    /\ last = NoTurn
    /\ script = NoScript
    /\ calls = NoCalls

\* the answers of the collaborators one run of generate_response consults;
\* None stands for a collaborator the run does not reach
ReplyChoices(prompt, delegates) ==
    IF delegates /\ ~awaiting_confirmation
          /\ "booking_type" \notin DOMAIN booking_data /\ CallsLLM(prompt)
    THEN BookingTypeReplies ELSE {None}

StoreChoices(prompt, delegates) ==
    IF delegates /\ awaiting_confirmation /\ IsAffirmative(prompt) THEN BOOLEAN ELSE {TRUE}

SmtpChoices(prompt, delegates, store_ok) ==
    IF delegates /\ awaiting_confirmation /\ IsAffirmative(prompt) /\ store_ok
    THEN BOOLEAN ELSE {TRUE}

ContextChoices(prompt, seen, delegates) ==
    IF ~delegates /\ DetectIntent(prompt, seen) = "query" /\ pdfs_uploaded
          /\ Lower(Strip(prompt)) \notin vague_queries
    THEN RagContexts ELSE {None}

ChatChoices(context) ==
    IF context \notin {None, RagFailure, ""} THEN ChatReplies ELSE {None}

\* a user turn, whatever its content: Seen reads the content of assistant
\* turns only, so it finds the same with any prompt appended
UserTurn == [role |-> "user", content |-> ""]

\* lines 259-296: one submitted chat input, from the widget check to
\* manage_memory
ChatInputFrom(utterances) ==
    \E seen \in {Seen(Append(messages, UserTurn))}, user_message \in utterances :
        \E prompt \in {ProcessWidgetSelection(user_message, None, None)} :
            \E delegates \in {Delegates(DetectIntent(prompt, seen), booking_data,
                                        awaiting_confirmation)} :
                \E reply \in ReplyChoices(prompt, delegates),
                   store_ok \in StoreChoices(prompt, delegates),
                   context \in ContextChoices(prompt, seen, delegates) :
                    \E smtp_ok \in SmtpChoices(prompt, delegates, store_ok),
                       chat_reply \in ChatChoices(context) :
                        \E g \in {GenerateResponse(
                                    prompt, seen, booking_data, awaiting_confirmation,
                                    pdfs_uploaded, customers, bookings,
                                    [reply |-> reply, store_ok |-> store_ok,
                                     smtp_ok |-> smtp_ok, today |-> Today(clock),
                                     now |-> Now(clock), context |-> context,
                                     chat_reply |-> chat_reply])} :
                            /\ Len(bookings) < MaxBookings
                            /\ messages' = ManageMemory(
                                   messages \o <<[role |-> "user", content |-> prompt],
                                                 [role |-> "assistant", content |-> g.response]>>)
                            /\ booking_data' = g.booking_data
                            /\ awaiting_confirmation' = g.awaiting
                            /\ customers' = g.effects.customers
                            /\ bookings' = g.effects.bookings
                            /\ last' = TurnRecord("chat", prompt, g.intent, g.route, g.effects)
                            /\ UNCHANGED <<pdfs_uploaded, clock, script, calls>>

\* lines 155-164
ClearChat ==
    /\ messages' = <<>>
    /\ booking_data' = EmptyDict
    /\ awaiting_confirmation' = FALSE
    /\ last' = NoTurn
    /\ UNCHANGED <<pdfs_uploaded, customers, bookings, clock, script, calls>>

\* lines 112-119, process_pdfs succeeding
ProcessPdfs ==
    /\ ~pdfs_uploaded
    /\ pdfs_uploaded' = TRUE
    /\ last' = NoTurn
    /\ UNCHANGED <<messages, booking_data, awaiting_confirmation, customers, bookings,
                   clock, script, calls>>

\* lines 124-129, clear_vector_store succeeding
ClearDocuments ==
    /\ pdfs_uploaded
    /\ pdfs_uploaded' = FALSE
    /\ last' = NoTurn
    /\ UNCHANGED <<messages, booking_data, awaiting_confirmation, customers, bookings,
                   clock, script, calls>>

\* a day passes
Tick ==
    /\ clock \div MinutesPerDay < MaxDays
    /\ clock' = clock + MinutesPerDay
    /\ last' = NoTurn
    /\ UNCHANGED <<messages, booking_data, awaiting_confirmation, pdfs_uploaded,
                   customers, bookings, script, calls>>

\* the booking dialogue: no documents are uploaded
ChatInput == ChatInputFrom(BookingUtterances)

Next == ChatInput \/ ClearChat \/ Tick

Spec == Init /\ [][Next]_vars

\* what str(e) is when a sidebar widget call of the date or the time
\* question raises
WidgetErrorText == "StreamlitAPIException"

\* main.py lines 374-381: the response of the except branch of
\* generate_response
CatchAllResponse(e) ==
    "I encountered an error: " \o e
        \o "\n\nPlease try again. If the issue persists:\n"
        \o "* Clear the chat and start fresh\n"
        \o "* Try rephrasing your message\n"
        \o "* Check if PDFs were uploaded correctly"

\* a chat turn during which a sidebar widget call of _ask_for_missing_info
\* (lines 301-324, the date and the time question) raises: the turn is
\* delegated to the booking flow, validation passes, booking_data.update
\* (line 66) and the pricing (lines 69-76) have changed the dict of the
\* session, which is the object passed in, and the except branch of
\* generate_response answers before lines 316-317 assign anything; last
\* keeps the draft and the flag the turn started with
ChatInputRaising ==
    \E seen \in {Seen(Append(messages, UserTurn))}, user_message \in BookingUtterances :
        \E prompt \in {ProcessWidgetSelection(user_message, None, None)} :
            \E delegates \in {Delegates(DetectIntent(prompt, seen), booking_data,
                                        awaiting_confirmation)} :
                \E reply \in ReplyChoices(prompt, delegates) :
                    \E g \in {GenerateResponse(
                                prompt, seen, booking_data, awaiting_confirmation,
                                pdfs_uploaded, customers, bookings,
                                [reply |-> reply, store_ok |-> TRUE, smtp_ok |-> TRUE,
                                 today |-> Today(clock), now |-> Now(clock),
                                 context |-> None, chat_reply |-> None])} :
                        /\ delegates /\ ~awaiting_confirmation
                        /\ ~g.effects.rejected
                        /\ MissingFields(g.booking_data) # <<>>
                        /\ MissingFields(g.booking_data)[1] \in {"date", "time"}
                        /\ messages' = ManageMemory(
                               messages \o <<[role |-> "user", content |-> prompt],
                                             [role |-> "assistant",
                                              content |-> CatchAllResponse(WidgetErrorText)]>>)
                        /\ booking_data' = g.booking_data
                        /\ last' = [kind |-> "error", intent |-> g.intent, route |-> g.route,
                                    draft_before |-> booking_data,
                                    awaiting_before |-> awaiting_confirmation]
                        /\ UNCHANGED <<awaiting_confirmation, pdfs_uploaded, customers,
                                       bookings, clock, script, calls>>

NextFault == ChatInput \/ ChatInputRaising \/ ClearChat \/ Tick

SpecFault == Init /\ [][NextFault]_vars

\* the chat page with documents, within one day
ChatInputDocs == ChatInputFrom(ChatUtterances)

NextDocs == ChatInputDocs \/ ClearChat \/ ProcessPdfs \/ ClearDocuments

SpecDocs == Init /\ [][NextDocs]_vars

-----------------------------------------------------------------------------
(* A cooperative user calling handle_booking_intent directly               *)

\* the target with the catalog price of its service
Priced(target) ==
    Put(target, "pricing", PriceString(service_pricing[target["booking_type"]].price))

InitC1 ==
    /\ messages = <<>>
    /\ booking_data = EmptyDict
    /\ awaiting_confirmation = FALSE
    /\ pdfs_uploaded = FALSE
    /\ customers = <<>>
    /\ bookings = <<>>
    /\ clock = OpeningMinute
    /\ last = NoTurn
    /\ script \in {[target |-> t, pending |-> Range(required_fields)] : t \in Targets}
    /\ calls = NoCalls

\* the completion call answers as instructed when it is consulted
CooperativeReplies(user_message) ==
    IF "booking_type" \notin DOMAIN booking_data /\ CallsLLM(user_message)
    THEN {"NOT_FOUND", LLMFailure} ELSE {None}

\* one call of handle_booking_intent with some of the target's values, the
\* draft and the flag of the previous call passed back in
Supply ==
    \E fields \in (SUBSET Range(required_fields)) \ {{}} :
        \E user_message \in {Said(script.target, fields, 1)} :
            \E reply \in CooperativeReplies(user_message) :
                \E r \in {HandleBookingIntent(user_message, booking_data, awaiting_confirmation,
                            customers, bookings,
                            [reply |-> reply, store_ok |-> TRUE, smtp_ok |-> TRUE,
                             today |-> Today(clock), now |-> Now(clock),
                             context |-> None, chat_reply |-> None])} :
                    /\ ~awaiting_confirmation
                    /\ booking_data' = r.booking_data
                    /\ awaiting_confirmation' = r.awaiting
                    /\ script' = [script EXCEPT !.pending = @ \ fields]
                    /\ last' = TurnRecord("direct", user_message, None, "booking", r.effects)
                    /\ UNCHANGED <<messages, pdfs_uploaded, customers, bookings, clock, calls>>

NextC1 == Supply

SpecC1 == InitC1 /\ [][NextC1]_vars

-----------------------------------------------------------------------------
(* _validate_extracted_data called directly, on one date and one time      *)

\* the dates a call is given: before today, today, within the year, the
\* last day accepted, past it, and strings strptime refuses
DateInputs ==
    {"2020-01-01", "2024-02-29", "2025-01-24", "2025-01-25", "2025-01-26", "2026-01-25",
     "2026-01-26", "2026-01-27", "2099-01-01", "2025-02-30", "2025-13-01", "25-01-2025"}

\* the times a call is given: padded and unpadded, each range overrun, and
\* strings without a colon or without numbers around it
TimeInputs ==
    {"00:00", "09:30", "9:30", "9:5", "10:00", "14:30", "23:59", "24:00", "25:00", "-1:30",
     "12:60", "12:75", "99:99", "1430", "ab:cd", "12:"}

\* the date the draft of the call holds, None for a draft without one
DraftDates == {None, "2025-01-25", "2025-01-26"}

\* a dict of the given (key, value) pairs whose value is not None
Given(date_str, time_str) ==
    [k \in {f \in {"date", "time"} : (IF f = "date" THEN date_str ELSE time_str) # None}
        |-> IF k = "date" THEN date_str ELSE time_str]

\* the calls made: a date alone, and a time with or without a date of the
\* same utterance, against a draft with or without a date
ValidateCalls ==
    {<<date_str, None, None>> : date_str \in DateInputs}
        \cup (DraftDates \X TimeInputs \X DraftDates)

\* one call _validate_extracted_data(extracted_data, existing_data); last
\* keeps the arguments, the errors returned and extracted_data afterwards
ValidateExtractedData ==
    \E call \in ValidateCalls :
        \E extracted_data \in {Given(call[1], call[2])},
           existing_data \in {Given(call[3], None)} :
            /\ last' = [kind |-> "validate",
                        extracted_data |-> extracted_data,
                        existing_data |-> existing_data,
                        errors |-> ValidationErrors(extracted_data, existing_data,
                                                    Today(clock), Now(clock)),
                        validated |-> AfterValidation(extracted_data, existing_data,
                                                      Today(clock), Now(clock))]
            /\ UNCHANGED <<messages, booking_data, awaiting_confirmation, pdfs_uploaded,
                           customers, bookings, clock, script, calls>>

\* the values a call is given for each of the five validated fields: none,
\* one that passes and one that fails
FieldInputs ==
    [email : {None, "a@b.co", "a@b"},
     phone : {None, "9876543210", "12345"},
     date  : {None, "2025-01-26", "2025-02-30"},
     time  : {None, "14:30", "25:00"},
     name  : {None, "Al", "x"}]

\* the dict of the fields of r that are given
GivenFields(r) == [k \in {f \in DOMAIN r : r[f] # None} |-> r[k]]

\* lines 57-65 of handle_booking_intent on a given extracted_data:
\* _validate_extracted_data against an empty draft, and the response built
\* from the errors when there are any
ReportValidationErrors ==
    \E r \in FieldInputs :
        \E extracted_data \in {GivenFields(r)} :
            \E errors \in {ValidationErrors(extracted_data, EmptyDict,
                                             Today(clock), Now(clock))} :
                /\ last' = [kind |-> "report",
                            extracted_data |-> extracted_data,
                            errors |-> errors,
                            response |-> IF errors # <<>> THEN ErrorResponse(errors)
                                         ELSE None]
                /\ UNCHANGED <<messages, booking_data, awaiting_confirmation,
                               pdfs_uploaded, customers, bookings, clock, script, calls>>

NextValidate == ValidateExtractedData \/ ReportValidationErrors \/ Tick

SpecValidate == Init /\ [][NextValidate]_vars

-----------------------------------------------------------------------------
(* detect_intent called directly, on one utterance and one history         *)

\* the turns a history is made of: a user turn, the assistant asking for
\* the name and for the email, the assistant's greeting, and an answer of
\* the completion call that the chat page stored
HistoryTurns ==
    {UserTurn,
     [role |-> "assistant", content |-> OpeningLine],
     [role |-> "assistant", content |-> Question("email", StartOrdinal)],
     [role |-> "assistant", content |-> GreetingReply],
     [role |-> "assistant", content |-> "Is this correct?"]}

\* the turns of the longest history
MaxTurns == 4

Histories == UNION {[1..n -> HistoryTurns] : n \in 0..MaxTurns}

\* the utterances classified: greetings, thanks, a goodbye, an upload
\* question that also says 'book a', a widget phrase, a booking request, an
\* email address and a question
IntentUtterances ==
    {"hi", "Hello there", "thanks", "bye", "can i upload a pdf to book a table?",
     "use selected date", "book a doctor appointment", "a@b.co", "what are your hours?"}

InitIntent ==
    /\ messages \in Histories
    /\ booking_data = EmptyDict
    /\ awaiting_confirmation = FALSE
    /\ pdfs_uploaded = FALSE
    /\ customers = <<>>
    /\ bookings = <<>>
    /\ clock = OpeningMinute
    /\ last = NoTurn
    /\ script = NoScript
    /\ calls = NoCalls

\* one call detect_intent(user_message, conversation_history) with the
\* history held in messages; last keeps the utterance and the answer
DetectIntentCall ==
    \E user_message \in IntentUtterances :
        /\ last' = [kind |-> "intent", user_message |-> user_message,
                    intent |-> DetectIntent(user_message, Seen(messages))]
        /\ UNCHANGED <<messages, booking_data, awaiting_confirmation, pdfs_uploaded,
                       customers, bookings, clock, script, calls>>

NextIntent == DetectIntentCall

SpecIntent == InitIntent /\ [][NextIntent]_vars

-----------------------------------------------------------------------------
(* _save_booking and create_booking, statement by statement, in the        *)
(* conversations that share the store                                      *)

\* a complete draft of one of two people
CompleteDraft(name, email) ==
    [name |-> name, email |-> email,
     phone |-> IF name = "Al" THEN "9876543210" ELSE "9876543211",
     booking_type |-> "Salon Service", date |-> "2025-01-26", time |-> "14:30"]

\* the drafts _save_booking writes: one email under two names, and an email
\* that differs from it in case only
SoundDrafts ==
    {CompleteDraft("Al", "a@b.co"), CompleteDraft("Bo", "a@b.co"),
     CompleteDraft("Bo", "A@b.co")}

\* the drafts its re-validation refuses: no time, an empty name, an email
\* without a top-level domain, a date the calendar does not have
UnsoundDrafts ==
    {[name |-> "Al", email |-> "a@b.co", phone |-> "9876543210",
      booking_type |-> "Salon Service", date |-> "2025-01-26"],
     [CompleteDraft("Al", "a@b.co") EXCEPT !.name = ""],
     [CompleteDraft("Al", "a@b.co") EXCEPT !.email = "a@b"],
     [CompleteDraft("Al", "a@b.co") EXCEPT !.date = "2025-02-30"]}

\* the calls of _save_booking one conversation makes
MaxCalls == 2

\* the conversations whose transaction holds the write lock of the store:
\* sqlite3 opens the transaction before the first INSERT or UPDATE, and a
\* second writer waits until the first has committed or rolled back
Writers == {c \in Conversations : calls[c].pc \in {"insert_booking", "commit"}}

\* last, after a call of _save_booking has ended: how it ended (refused by
\* the re-validation, raised by create_booking, returned), the statement it
\* ended at, the tables as they were just before, and what was returned
CallRecord(kind, c, draft, cause, result) ==
    [kind |-> kind, conversation |-> c, booking_data |-> draft, cause |-> cause,
     result |-> result, at |-> calls[c].pc, customers |-> customers, bookings |-> bookings]

\* the call is over: the connection is closed (finally: line 107)
Ended(c) == [calls EXCEPT ![c] = [NoCall EXCEPT !.made = calls[c].made]]

\* lines 397-407, and the call of create_booking with its connection opened
SaveBookingCall(c) ==
    \E draft \in SoundDrafts \cup UnsoundDrafts :
        /\ calls[c].pc = "idle"
        /\ calls[c].made < MaxCalls
        /\ IF Revalidation(draft) # None
           THEN /\ calls' = [calls EXCEPT ![c].made = @ + 1]
                /\ last' = CallRecord("refused", c, draft, "validation",
                                      Revalidation(draft))
           ELSE /\ calls' = [calls EXCEPT ![c] = [NoCall EXCEPT !.pc = "select",
                                                  !.made = calls[c].made + 1,
                                                  !.booking_data = draft]]
                /\ last' = NoTurn
        /\ UNCHANGED <<messages, booking_data, awaiting_confirmation, pdfs_uploaded,
                       customers, bookings, clock, script>>

\* lines 72-73: the SELECT reads the committed table
SelectCustomer(c) ==
    /\ calls[c].pc = "select"
    /\ \E found \in {CustomerRows(customers, calls[c].booking_data["email"])} :
          calls' = [calls EXCEPT
                      ![c].pc = IF found = {} THEN "insert_customer" ELSE "update_customer",
                      ![c].customer_id = IF found = {} THEN 0
                                         ELSE customers[Min(found)].customer_id]
    /\ last' = NoTurn
    /\ UNCHANGED <<messages, booking_data, awaiting_confirmation, pdfs_uploaded,
                   customers, bookings, clock, script>>

\* lines 78-82: the UPDATE of the row found, inside the transaction it opens
UpdateCustomer(c) ==
    /\ calls[c].pc = "update_customer"
    /\ Writers \ {c} = {}
    /\ calls' = [calls EXCEPT
                   ![c].pc = "insert_booking",
                   ![c].customers =
                       [i \in 1..Len(customers) |->
                           IF customers[i].customer_id = calls[c].customer_id
                           THEN [customers[i] EXCEPT !.name = calls[c].booking_data["name"],
                                                     !.phone = calls[c].booking_data["phone"]]
                           ELSE customers[i]]]
    /\ last' = NoTurn
    /\ UNCHANGED <<messages, booking_data, awaiting_confirmation, pdfs_uploaded,
                   customers, bookings, clock, script>>

\* the message create_booking raises when the INSERT meets the UNIQUE
\* constraint on customers.email (line 39)
UniqueErrorText == "Error creating booking: UNIQUE constraint failed: customers.email"

\* an INSERT of a new customer into a table without the UNIQUE constraint
InsertCustomerUnchecked(c) ==
    /\ calls[c].pc = "insert_customer"
    /\ Writers \ {c} = {}
    /\ calls' = [calls EXCEPT
                   ![c].pc = "insert_booking",
                   ![c].customer_id = NextCustomerId(customers),
                   ![c].customers =
                       Append(customers,
                              [customer_id |-> NextCustomerId(customers),
                               name |-> calls[c].booking_data["name"],
                               email |-> calls[c].booking_data["email"],
                               phone |-> calls[c].booking_data["phone"]])]
    /\ last' = NoTurn
    /\ UNCHANGED <<messages, booking_data, awaiting_confirmation, pdfs_uploaded,
                   customers, bookings, clock, script>>

\* lines 85-89: the INSERT of a new customer, inside the transaction it
\* opens; a row with this email committed since the SELECT violates the
\* UNIQUE constraint, and lines 103-107 roll back and raise
InsertCustomer(c) ==
    /\ calls[c].pc = "insert_customer"
    /\ Writers \ {c} = {}
    /\ IF CustomerRows(customers, calls[c].booking_data["email"]) # {}
       THEN /\ calls' = Ended(c)
            /\ last' = CallRecord("raised", c, calls[c].booking_data, "constraint",
                                  UniqueErrorText)
       ELSE /\ calls' = [calls EXCEPT
                           ![c].pc = "insert_booking",
                           ![c].customer_id = NextCustomerId(customers),
                           ![c].customers =
                               Append(customers,
                                      [customer_id |-> NextCustomerId(customers),
                                       name |-> calls[c].booking_data["name"],
                                       email |-> calls[c].booking_data["email"],
                                       phone |-> calls[c].booking_data["phone"]])]
            /\ last' = NoTurn
    /\ UNCHANGED <<messages, booking_data, awaiting_confirmation, pdfs_uploaded,
                   customers, bookings, clock, script>>

\* lines 92-97: the INSERT of the booking row, status left at its default
InsertBooking(c) ==
    /\ calls[c].pc = "insert_booking"
    /\ calls' = [calls EXCEPT
                   ![c].pc = "commit",
                   ![c].bookings =
                       Append(bookings,
                              [id |-> NextBookingId(bookings),
                               customer_id |-> calls[c].customer_id,
                               booking_type |-> calls[c].booking_data["booking_type"],
                               date |-> calls[c].booking_data["date"],
                               time |-> calls[c].booking_data["time"],
                               status |-> "confirmed"])]
    /\ last' = NoTurn
    /\ UNCHANGED <<messages, booking_data, awaiting_confirmation, pdfs_uploaded,
                   customers, bookings, clock, script>>

\* lines 99-100: the commit makes the rows of the transaction the tables,
\* and the id of the booking row is returned
Commit(c) ==
    /\ calls[c].pc = "commit"
    /\ customers' = calls[c].customers
    /\ bookings' = calls[c].bookings
    /\ calls' = Ended(c)
    /\ last' = CallRecord("returned", c, calls[c].booking_data, "commit",
                          ToStr(calls[c].bookings[Len(calls[c].bookings)].id))
    /\ UNCHANGED <<messages, booking_data, awaiting_confirmation, pdfs_uploaded,
                   clock, script>>

\* a failure after which the customer row of the transaction stays
StoreFaultKeepsRows(c) ==
    /\ calls[c].pc \in {"select", "insert_customer", "update_customer", "insert_booking",
                         "commit"}
    /\ customers' = IF calls[c].pc \in {"insert_booking", "commit"}
                    THEN calls[c].customers ELSE customers
    /\ calls' = Ended(c)
    /\ last' = CallRecord("raised", c, calls[c].booking_data, "fault", StoreErrorText)
    /\ UNCHANGED <<messages, booking_data, awaiting_confirmation, pdfs_uploaded,
                   bookings, clock, script>>

\* lines 103-107: a statement of create_booking fails for a reason of the
\* store's own; the rollback drops the rows of the transaction
StoreFault(c) ==
    /\ calls[c].pc \in {"select", "insert_customer", "update_customer", "insert_booking",
                         "commit"}
    /\ calls' = Ended(c)
    /\ last' = CallRecord("raised", c, calls[c].booking_data, "fault", StoreErrorText)
    /\ UNCHANGED <<messages, booking_data, awaiting_confirmation, pdfs_uploaded,
                   customers, bookings, clock, script>>

NextStore ==
    \E c \in Conversations :
        \/ SaveBookingCall(c)
        \/ SelectCustomer(c)
        \/ UpdateCustomer(c)
        \/ InsertCustomer(c)
        \/ InsertBooking(c)
        \/ Commit(c)
        \/ StoreFault(c)

SpecStore == Init /\ [][NextStore]_vars

\* C1: once the cooperative user has supplied all six values, a call that
\* returns awaiting_confirmation = true returns the draft that holds exactly
\* these values and the catalog price of the supplied service
C1_ConfirmationShowsSuppliedValues ==
    (last.kind = "direct" /\ awaiting_confirmation /\ script.pending = {})
        => booking_data = Priced(script.target)

-----------------------------------------------------------------------------
(* The confirmation step and the validation step of a chat turn            *)

\* the assistant message the last turn appended
LastResponse == IF messages = <<>> THEN None ELSE messages[Len(messages)].content

\* C2: a chat turn that finds awaiting_confirmation true and an affirmative
\* word in the utterance calls create_booking exactly once, and when the
\* booking is stored the session afterwards has an empty draft and
\* awaiting_confirmation = false
C2_AffirmativeStoresOnce ==
    (last.kind = "chat" /\ last.was_awaiting /\ last.affirmative)
        => /\ last.create_calls = 1
           /\ last.save_ok => (booking_data = EmptyDict /\ ~awaiting_confirmation)

\* a confirmed draft was stored as the first booking and the session is empty
C2_StoredAndCleared ==
    /\ last.kind = "chat" /\ last.was_awaiting /\ last.affirmative
    /\ last.save_ok /\ last.create_calls = 1
    /\ Len(bookings) = 1
    /\ booking_data = EmptyDict /\ ~awaiting_confirmation

\* C3: a chat turn that finds awaiting_confirmation true and a word of the
\* negative set in the utterance creates no booking row and no customer row,
\* leaves an empty draft with awaiting_confirmation = false and answers with
\* the restart prompt
C3_NegativeWordRestarts ==
    (last.kind = "chat" /\ last.was_awaiting /\ last.negative)
        => /\ last.create_calls = 0 /\ ~last.save_ok
           /\ bookings = <<>> /\ customers = <<>>
           /\ booking_data = EmptyDict /\ ~awaiting_confirmation
           /\ LastResponse = RestartPrompt

\* C4: a collecting turn whose validation reports an error leaves the draft
\* as it was before the turn, and awaiting_confirmation false
C4_RejectedTurnMergesNothing ==
    [][(last'.kind = "chat" /\ last'.rejected)
          => (booking_data' = booking_data /\ ~awaiting_confirmation
                /\ ~awaiting_confirmation')]_vars

\* "a@b.co 25:00" was rejected for its hour: the draft that held the name
\* before still holds no email
C4_ValidEmailNotMerged ==
    /\ last.kind = "chat" /\ last.rejected
    /\ LastResponse = ErrorResponse(<< <<"time", "'25:00' has invalid hours. Use 00-23">> >>)
    /\ "name" \in DOMAIN booking_data
    /\ "email" \notin DOMAIN booking_data

-----------------------------------------------------------------------------
(* Extraction against a draft                                              *)

\* what a collecting call returns for the draft at clock value c, the
\* completion call answering reply
Collected(user_message, draft, reply, c) ==
    HandleCollecting(user_message, draft, <<>>, <<>>,
                     [reply |-> reply, store_ok |-> TRUE, smtp_ok |-> TRUE,
                      today |-> Today(c), now |-> Now(c),
                      context |-> None, chat_reply |-> None])

\* the answers the completion call may give when extraction consults it
RepliesFor(user_message, draft) ==
    IF "booking_type" \notin DOMAIN draft /\ CallsLLM(user_message)
    THEN BookingTypeReplies ELSE {None}

\* every field of draft is in merged with the same value
Keeps(draft, merged) ==
    \A f \in DOMAIN draft : f \in DOMAIN merged /\ merged[f] = draft[f]

\* r is what the first processing of the utterance returned
SameAnswerChangesNothing(user_message, reply, r) ==
    /\ Keeps(booking_data, r.booking_data)
    /\ ~r.awaiting
          => Collected(user_message, r.booking_data, reply, clock).booking_data = r.booking_data

AnyAnswerChangesNothing(user_message, r) ==
    /\ Keeps(booking_data, r.booking_data)
    /\ ~r.awaiting
          => \A again \in RepliesFor(user_message, r.booking_data) :
                Collected(user_message, r.booking_data, again, clock).booking_data
                    = r.booking_data

-----------------------------------------------------------------------------
(* Routing, pricing, validated drafts, failed saves and the email          *)

\* C6: a chat turn is delegated to handle_booking_intent exactly when the
\* detected intent is booking, or the draft it found was non-empty, or it
\* found awaiting_confirmation true; the query and general paths are taken
\* only when none of the three holds
C6_DelegatesOnIntentDraftOrFlag ==
    last.kind = "chat"
        => /\ last.route = "booking"
                <=> (last.intent = "booking" \/ last.had_draft \/ last.was_awaiting)
           /\ last.route \in {"booking", "query", "general"}

\* a turn was delegated for its draft alone: detect_intent had not
\* returned booking and awaiting_confirmation was false
C6_DelegatedForDraft ==
    /\ last.kind = "chat" /\ last.route = "booking"
    /\ last.intent # "booking" /\ last.had_draft /\ ~last.was_awaiting

\* C7: in every session state the draft holds a price exactly when it holds a
\* service type, and the price is the catalog price of that service type,
\* 'Free' for 0 and '$N' otherwise
C7_PriceIsCatalogPrice ==
    /\ "pricing" \in DOMAIN booking_data <=> "booking_type" \in DOMAIN booking_data
    /\ "booking_type" \in DOMAIN booking_data
          => /\ booking_data["booking_type"] \in DOMAIN service_pricing
             /\ booking_data["pricing"]
                   = PriceString(service_pricing[booking_data["booking_type"]].price)

\* HH:MM with the hour in 0..23 and the minute in 0..59
CanonicalTime(t) ==
    /\ Len(t) = 5 /\ Ch(t, 3) = ":"
    /\ IsDigit(SubSeq(t, 1, 2)) /\ ToInt(SubSeq(t, 1, 2)) \in 0..23
    /\ IsDigit(SubSeq(t, 4, 5)) /\ ToInt(SubSeq(t, 4, 5)) \in 0..59

\* the checks of the validator that do not depend on the day
WellFormed(draft) ==
    /\ "email" \in DOMAIN draft => EmailMatches(draft["email"])
    /\ "phone" \in DOMAIN draft
          => IsDigit(draft["phone"]) /\ Len(draft["phone"]) \in 10..15
    /\ "date" \in DOMAIN draft => DateParses(draft["date"])
    /\ "time" \in DOMAIN draft => CanonicalTime(draft["time"])
    /\ "name" \in DOMAIN draft => Len(Strip(draft["name"])) \in 2..100

\* C8: after every step each field of the draft is well formed (email shape,
\* phone of 10-15 digits, a date that parses, canonical time, name of trimmed
\* length 2..100), and a date the step merged lies in [today, today + 365]
\* on the day of the step
C8_DraftFieldsPassedValidation ==
    [][/\ WellFormed(booking_data')
       /\ ("date" \in DOMAIN booking_data' /\ "date" \notin DOMAIN booking_data)
             => DateOrdinal(booking_data'["date"]) \in Today(clock)..(Today(clock) + 365)]_vars

\* a complete draft whose time was typed as "9:30" awaits confirmation
C8_CompleteDraftCanonicalTime ==
    /\ last.kind = "chat" /\ awaiting_confirmation
    /\ {"email", "phone", "date", "time", "name"} \subseteq DOMAIN booking_data
    /\ booking_data["time"] = "09:30"
    /\ booking_data["date"] = StartDate

\* the results with which _save_booking reports a failure
SaveFailures ==
    {StoreErrorText, "Invalid email", "Invalid date"}
        \cup {"Missing: " \o required_fields[n] : n \in 1..Len(required_fields)}

\* C9: a chat turn that finds awaiting_confirmation true and an affirmative
\* word, and whose save fails, answers with the error message, leaves an
\* empty draft with awaiting_confirmation = false, and has called
\* create_booking at most once
C9_FailedSaveClearsDraft ==
    (last.kind = "chat" /\ last.was_awaiting /\ last.affirmative /\ ~last.save_ok)
        => /\ \E result \in SaveFailures : LastResponse = SaveFailedResponse(result)
           /\ booking_data = EmptyDict /\ ~awaiting_confirmation
           /\ last.create_calls <= 1

\* the store raised on the one call: no row, the draft is gone
C9_StoreRaised ==
    /\ last.kind = "chat" /\ last.was_awaiting /\ last.affirmative /\ ~last.save_ok
    /\ last.create_calls = 1
    /\ LastResponse = SaveFailedResponse(StoreErrorText)
    /\ bookings = <<>> /\ booking_data = EmptyDict

\* what the confirmation reads from the draft, read back from booking row i
\* and its customer row
RowDraft(i) ==
    [booking_type |-> bookings[i].booking_type, date |-> bookings[i].date,
     time |-> bookings[i].time,
     pricing |-> PriceString(PriceOf(bookings[i].booking_type)),
     email |-> customers[CHOOSE j \in 1..Len(customers) :
                            customers[j].customer_id = bookings[i].customer_id].email]

\* the confirmation of booking_id when the email was or was not sent
ConfirmationOf(draft, booking_id, email_sent) ==
    ConfirmedHead(draft, booking_id) \o EmailLine(draft, email_sent) \o ConfirmedTail(draft)

\* C10: after a chat turn whose create_booking succeeded, whatever
\* send_booking_email returned, the booking row is in the table as
\* confirmed, the response is the confirmation with the booking id in which
\* only the email line depends on the email's outcome, and the session is
\* cleared
C10_EmailOutcomeLeavesBooking ==
    (last.kind = "chat" /\ last.save_ok)
        => /\ booking_data = EmptyDict /\ ~awaiting_confirmation
           /\ \E i \in 1..Len(bookings) :
                 /\ bookings[i].id = last.booking_id
                 /\ bookings[i].status = "confirmed"
                 /\ LastResponse = ConfirmationOf(RowDraft(i), last.booking_id, last.email_sent)

\* a booking was stored and its email was not sent
C10_StoredWithoutEmail ==
    /\ last.kind = "chat" /\ last.save_ok /\ ~last.email_sent
    /\ Len(bookings) = 1 /\ bookings[1].id = last.booking_id
    /\ booking_data = EmptyDict /\ ~awaiting_confirmation

-----------------------------------------------------------------------------
(* Collaborator failures                                                   *)

\* a response text, as opposed to a failure that got through
IsText(response) ==
    response \notin {None, LLMFailure, RagFailure} /\ Len(response) > 0

\* C11: whatever the completion calls, the document retrieval, the booking
\* store and the email do on a chat turn, failing included, the turn appends
\* a response text: no failure gets through generate_response
C11_TurnAlwaysAnswers ==
    last.kind = "chat" => IsText(LastResponse)

\* the chat completion failed and the turn answered with the apology
C11_CompletionFailedApology ==
    /\ last.kind = "chat" /\ last.route # "booking"
    /\ LastResponse = SorryResponse("Connection error.")

-----------------------------------------------------------------------------
(* The outcome of a collecting turn                                        *)

\* the last step was a chat turn that handle_booking_intent took in COLLECTING
CollectingTurn == last.kind = "chat" /\ last.route = "booking" /\ ~last.was_awaiting

\* all six required fields are in the draft and not empty
AllSixPresent(draft) ==
    \A n \in 1..Len(required_fields) :
        required_fields[n] \in DOMAIN draft /\ draft[required_fields[n]] # ""

\* the response shows every one of the six values of the draft
ShowsAllSix(response, draft) ==
    \A n \in 1..Len(required_fields) : Contains(response, draft[required_fields[n]])

\* the draft holds exactly the five fields other than the time, and the price
FiveButTime(draft) ==
    DOMAIN draft = {"name", "email", "phone", "booking_type", "date", "pricing"}

\* what the call with "14:30" would return
AfterTime == Collected("14:30", booking_data, None, clock)

FirstMissing(draft) ==
    required_fields[Min({n \in 1..Len(required_fields) :
                            \/ required_fields[n] \notin DOMAIN draft
                            \/ draft[required_fields[n]] = ""})]

\* the response ends with the question
EndsWith(response, question) ==
    /\ Len(response) >= Len(question)
    /\ SubSeq(response, Len(response) - Len(question) + 1, Len(response)) = question

\* r is what a collecting call returned for the session's draft: the draft
\* as it was, awaiting_confirmation false and the question for the first
\* field that is still missing
AsksAgain(r) ==
    /\ r.booking_data = booking_data
    /\ ~r.awaiting
    /\ ~AllSixPresent(booking_data)
    /\ EndsWith(r.response, Question(FirstMissing(booking_data), Today(clock)))

\* the utterance of the example, next to those of the dialogue
IdleUtterances == BookingUtterances \cup {"no idea"}

\* C13: in every collecting session, an utterance from which nothing is
\* extracted leaves the draft unchanged and awaiting_confirmation false, and
\* the response asks for the first required field that is still missing; a
\* draft that lacks only the time yields nothing on "no idea"
C13_NothingExtractedAsksAgain ==
    ~awaiting_confirmation
        => /\ \A u \in IdleUtterances : \A reply \in RepliesFor(u, booking_data) :
                 ExtractBookingInfo(u, booking_data, reply) = EmptyDict
                    => AsksAgain(Collected(u, booking_data, reply, clock))
           /\ FiveButTime(booking_data)
                 => ExtractBookingInfo("no idea", booking_data, None) = EmptyDict

\* a collecting turn has just asked for the time, the only field missing, and
\* "no idea" is answered with the same question and the same draft
C13_TimeAskedAgain ==
    /\ CollectingTurn /\ ~awaiting_confirmation /\ FiveButTime(booking_data)
    /\ EndsWith(LastResponse, Question("time", Today(clock)))
    /\ Collected("no idea", booking_data, None, clock).response = LastResponse
    /\ Collected("no idea", booking_data, None, clock).booking_data = booking_data

-----------------------------------------------------------------------------
(* A reply to the confirmation that says neither yes nor no                *)

\* what handle_booking_intent would return for the utterance in this session
Replied(user_message) ==
    HandleBookingIntent(user_message, booking_data, awaiting_confirmation, customers, bookings,
                        [reply |-> None, store_ok |-> TRUE, smtp_ok |-> TRUE,
                         today |-> Today(clock), now |-> Now(clock),
                         context |-> None, chat_reply |-> None])

\* r keeps the draft and the flag, stores nothing and asks for yes or no
StaysAtConfirmation(r) ==
    /\ r.booking_data = booking_data /\ r.awaiting /\ ~r.complete
    /\ r.effects.create_calls = 0
    /\ r.effects.bookings = bookings /\ r.effects.customers = customers
    /\ r.response = YesNoPrompt

\* C14: while awaiting_confirmation is true, an utterance with no affirmative
\* and no negative word creates no booking, returns the draft unchanged with
\* awaiting_confirmation true and asks again for yes or no; a chat turn of
\* that kind leaves the session at the confirmation with that prompt
C14_UnclearReplyStays ==
    /\ awaiting_confirmation
          => \A u \in BookingUtterances :
                (~IsAffirmative(u) /\ ~IsNegative(u)) => StaysAtConfirmation(Replied(u))
    /\ (last.kind = "chat" /\ last.was_awaiting /\ ~last.affirmative /\ ~last.negative)
          => /\ awaiting_confirmation /\ AllSixPresent(booking_data)
             /\ last.create_calls = 0 /\ ~last.save_ok
             /\ LastResponse = YesNoPrompt

\* a reply such as "spa" at the confirmation was answered with the prompt
C14_AskedYesOrNoAgain ==
    /\ last.kind = "chat" /\ last.was_awaiting /\ ~last.affirmative /\ ~last.negative
    /\ awaiting_confirmation /\ LastResponse = YesNoPrompt
    /\ bookings = <<>>

-----------------------------------------------------------------------------
(* The date check of the validator                                         *)

\* the message the returned errors hold for a field, None without one
ErrorOn(errors, field) ==
    IF \E i \in 1..Len(errors) : errors[i][1] = field
    THEN errors[CHOOSE i \in 1..Len(errors) : errors[i][1] = field][2]
    ELSE None

\* the inputs that name no day of the calendar in the form YYYY-MM-DD
NotOnCalendar == {"2025-02-30", "2025-13-01", "25-01-2025"}

\* the days from StartDate to each of the other inputs, counted on the
\* calendar (2024 is a leap year, 2025 is not)
DaysFromStart ==
    [d \in DateInputs \ NotOnCalendar |->
        CASE d = "2020-01-01" -> 0 - 1851
          [] d = "2024-02-29" -> 0 - 331
          [] d = "2025-01-24" -> 0 - 1
          [] d = "2025-01-25" -> 0
          [] d = "2025-01-26" -> 1
          [] d = "2026-01-25" -> 365
          [] d = "2026-01-26" -> 366
          [] d = "2026-01-27" -> 367
          [] d = "2099-01-01" -> 27004]

\* the days the clock has advanced since StartDate
DaysElapsed == clock \div MinutesPerDay

\* what the date check owes a date: the format error off the calendar, the
\* past-date error with the count of days before today, the too-far-ahead
\* error beyond today + 365, and no error from today to today + 365
DateVerdict(date_str, error) ==
    IF date_str \in NotOnCalendar
    THEN error = "'" \o date_str \o "' is invalid. Use YYYY-MM-DD (e.g., 2025-01-25)"
    ELSE LET ahead == DaysFromStart[date_str] - DaysElapsed
         IN  IF ahead < 0
             THEN error = "'" \o date_str \o "' is " \o ToStr(0 - ahead)
                              \o " day(s) in the past. Choose a future date"
             ELSE IF ahead > 365
             THEN error = "'" \o date_str \o "' is too far ahead. Book within the next year"
             ELSE error = None

\* C15: the validator accepts a date exactly when it is a day of the
\* calendar from today to today + 365; an earlier day gets the past-date
\* error with the number of days, a later one the too-far-ahead error, and
\* a string that is no calendar date the format error
C15_DateAcceptedWithinYear ==
    (last.kind = "validate" /\ "date" \in DOMAIN last.extracted_data)
        => DateVerdict(last.extracted_data["date"], ErrorOn(last.errors, "date"))

\* the day 365 days after today has been validated and accepted
C15_LastDayAccepted ==
    /\ last.kind = "validate"
    /\ "date" \in DOMAIN last.extracted_data
    /\ last.extracted_data["date"] \notin NotOnCalendar
    /\ DaysFromStart[last.extracted_data["date"]] - DaysElapsed = 365
    /\ ErrorOn(last.errors, "date") = None

-----------------------------------------------------------------------------
(* The time check of the validator                                         *)

\* one or two digits, a colon, two digits: the form the extractor looks for
HasTimeShape(time_str) ==
    /\ Cardinality(Colons(time_str)) = 1
    /\ IsDigit(SplitHour(time_str)) /\ Len(SplitHour(time_str)) \in {1, 2}
    /\ IsDigit(SplitMinute(time_str)) /\ Len(SplitMinute(time_str)) = 2

\* what the time check owes a time, the check against the clock aside: the
\* format error without the form, the hour error, the minute error, and
\* else the value rewritten with both numbers on two digits
TimeVerdict(time_str, error, value) ==
    IF ~HasTimeShape(time_str)
    THEN error \in {"'" \o time_str \o "' is invalid. Use HH:MM (e.g., 14:30)",
                    "'" \o time_str \o "' is invalid. Use HH:MM format (e.g., 14:30)"}
    ELSE IF ToInt(SplitHour(time_str)) > 23
    THEN error = "'" \o time_str \o "' has invalid hours. Use 00-23"
    ELSE IF ToInt(SplitMinute(time_str)) > 59
    THEN error = "'" \o time_str \o "' has invalid minutes. Use 00-59"
    ELSE value = Pad2(ToInt(SplitHour(time_str))) \o ":" \o SplitMinute(time_str)

\* C16: the validator gives a time without the form HH:MM (such as '9:5')
\* the format error before any range is tested, an hour outside 0-23 the
\* hour error, a minute outside 0-59 the minute error, and rewrites every
\* time it accepts with both numbers on two digits
C16_TimeShapeThenRange ==
    (last.kind = "validate" /\ "time" \in DOMAIN last.extracted_data)
        => TimeVerdict(last.extracted_data["time"], ErrorOn(last.errors, "time"),
                       last.validated["time"])

-----------------------------------------------------------------------------
(* A time of today that the clock has passed                               *)

HasPassed(time_str) == "'" \o time_str \o "' has passed. Choose a future time"

\* the date known on a turn with this utterance: the draft's, or else the
\* one the utterance gives
KnownOnTurn(tu) == IF "date" \in DOMAIN booking_data THEN booking_data["date"] ELSE tu.date

\* C17: on a collecting turn that extracts a time while the date known on
\* that turn (the draft's or the utterance's) is today, a time before the
\* clock's is rejected with the 'has passed' error and the draft is left as
\* it was; with a known date other than today the time is not tested
\* against the clock
C17_PassedTimeOfTodayRejected ==
    (~awaiting_confirmation /\ "time" \notin DOMAIN booking_data)
        => \A tu \in TimedUtterances : \A reply \in RepliesFor(tu.text, booking_data) :
              \E r \in {Collected(tu.text, booking_data, reply, clock)} :
                 /\ (KnownOnTurn(tu) = DateString(Today(clock)) /\ tu.minute < Now(clock))
                       => /\ r.effects.rejected
                          /\ Contains(r.response, HasPassed(tu.time))
                          /\ r.booking_data = booking_data
                          /\ ~r.awaiting
                 /\ (KnownOnTurn(tu) \notin {None, DateString(Today(clock))})
                       => ~Contains(r.response, "has passed")

\* the draft holds today's date and the turn just made was answered with
\* the 'has passed' error for 09:30; the draft still holds no time
C17_MorningTimeRefused ==
    /\ last.kind = "chat" /\ last.route = "booking" /\ last.rejected
    /\ "date" \in DOMAIN booking_data
    /\ booking_data["date"] = DateString(Today(clock))
    /\ "time" \notin DOMAIN booking_data
    /\ Contains(LastResponse, HasPassed("09:30"))

-----------------------------------------------------------------------------
(* The intent classifier as an ordered list of rules                       *)

\* the latest assistant turn among the last three of the history holds one
\* of the phrases of a question for a booking field
AskedForField(history) == history # <<>> /\ Meets(Seen(history).latest, asked_markers)

\* an assistant turn among the last three holds a booking-progress phrase
InProgress(history) == history # <<>> /\ Meets(Seen(history).any, progress_markers)

\* the five rules, in order: the condition and the intent it gives
FiveRules(user_message, history) ==
    LET low == Lower(Strip(user_message))
    IN  << [applies |-> ContainsAny(low, non_booking_phrases) /\ ~AskedForField(history),
            gives   |-> IF low \in {"hi", "hello", "hey"} THEN "general" ELSE "query"],
           [applies |-> ContainsAny(low, widget_phrases), gives |-> "booking"],
           [applies |-> ContainsAny(low, booking_keywords), gives |-> "booking"],
           [applies |-> InProgress(history), gives |-> "booking"],
           [applies |-> TRUE, gives |-> "query"] >>

\* the intent of the first rule that applies
FirstMatch(rules) == rules[Min({i \in 1..Len(rules) : rules[i].applies})].gives

\* C18: detect_intent gives what the five rules give, the first rule that
\* applies deciding: a non-booking phrase with no question for a booking
\* field just asked (general for a bare hi/hello/hey, query otherwise), a
\* widget phrase (booking), a booking phrase (booking), a booking-progress
\* phrase in an assistant turn among the last three (booking), else query
C18_IntentIsFirstMatchingRule ==
    last.kind = "intent"
        => last.intent = FirstMatch(FiveRules(last.user_message, messages))

-----------------------------------------------------------------------------
(* An answer without a trigger phrase, after a question for a field        *)

\* the fields whose question the classifier recognises
AskedFields == {"name", "email", "phone", "date", "time"}

\* the latest turn is the assistant's and ends with the question for the
\* field, asked on one of the days the clock has shown
JustAsked(field) ==
    /\ messages # <<>>
    /\ messages[Len(messages)].role = "assistant"
    /\ \E day \in 0..DaysElapsed :
          EndsWith(messages[Len(messages)].content, Question(field, StartOrdinal + day))

\* answers to such a question: an email address, a name, an email address
\* with a phone number, a date and a time
PlainAnswers == {"a@b.co", "al", "a@b.co 9876543210", "2025-01-25", "14:30"}

\* the utterance holds no phrase of the three lists of the classifier
NoTrigger(user_message) ==
    LET low == Lower(Strip(user_message))
    IN  /\ ~ContainsAny(low, non_booking_phrases)
        /\ ~ContainsAny(low, widget_phrases)
        /\ ~ContainsAny(low, booking_keywords)

TriggerFree == {u \in PlainAnswers : NoTrigger(u)}

\* C19: right after the assistant asked for the name, the email, the
\* phone, the date or the time, an utterance that holds no trigger phrase
\* (a bare email address, say) is classified as booking
C19_AnswerContinuesBooking ==
    (\E field \in AskedFields : JustAsked(field))
        => /\ "a@b.co" \in TriggerFree
           /\ \E seen \in {Seen(Append(messages, UserTurn))} :
                 \A u \in TriggerFree : DetectIntent(u, seen) = "booking"

\* the assistant has just asked for the email address, and a bare email
\* address typed now is classified as booking
C19_EmailAfterEmailQuestion ==
    /\ JustAsked("email")
    /\ DetectIntent("a@b.co", Seen(Append(messages, UserTurn))) = "booking"

-----------------------------------------------------------------------------
(* A greeting, a thanks or a goodbye during a booking                      *)

\* the utterances that greet, thank or take leave
Courtesies == {"hi", "Hello there", "thanks", "bye"}

\* C20: a greeting, a thanks or a goodbye is never classified as booking,
\* whatever the history, one whose latest assistant turn asked for a
\* booking field included
C20_CourtesyEndsBooking ==
    (last.kind = "intent" /\ last.user_message \in Courtesies) => last.intent # "booking"

-----------------------------------------------------------------------------
(* The rows a successful create_booking writes                             *)

\* the rows of a customers table with this email, compared character by
\* character
RowsWithEmail(table, email) == {i \in 1..Len(table) : table[i].email = email}

\* the table is the earlier one with one row more
OneRowMore(table, earlier) ==
    /\ Len(table) = Len(earlier) + 1
    /\ SubSeq(table, 1, Len(earlier)) = earlier

\* the customers table after a call for the draft, given the table before:
\* the row with the draft's email keeps its id and takes the draft's name
\* and phone, all other rows as they were; without such a row, one new row
\* with the draft's values and an id no row had
CustomerResolved(table, earlier, draft) ==
    IF RowsWithEmail(earlier, draft["email"]) # {}
    THEN /\ Len(table) = Len(earlier)
         /\ \A i \in 1..Len(earlier) :
               IF earlier[i].email = draft["email"]
               THEN table[i] = [earlier[i] EXCEPT !.name = draft["name"],
                                                  !.phone = draft["phone"]]
               ELSE table[i] = earlier[i]
    ELSE /\ OneRowMore(table, earlier)
         /\ table[Len(table)].name = draft["name"]
         /\ table[Len(table)].email = draft["email"]
         /\ table[Len(table)].phone = draft["phone"]
         /\ \A i \in 1..Len(earlier) : earlier[i].customer_id # table[Len(table)].customer_id

\* C21: a create_booking that returns has added exactly one booking row,
\* with status 'confirmed' and the draft's service, date and time, linked
\* to the one customer row with exactly the draft's email; that row is the
\* existing one with name and phone set to the draft's, or else one new
\* row; and the customers table never holds two rows with one email
C21_OneBookingOneCustomerPerEmail ==
    /\ \A i, j \in 1..Len(customers) : customers[i].email = customers[j].email => i = j
    /\ last.kind = "returned"
          => /\ OneRowMore(bookings, last.bookings)
             /\ CustomerResolved(customers, last.customers, last.booking_data)
             /\ \E row \in {bookings[Len(bookings)]} :
                   /\ row.status = "confirmed"
                   /\ ToStr(row.id) = last.result
                   /\ \A i \in 1..Len(last.bookings) : last.bookings[i].id # row.id
                   /\ row.booking_type = last.booking_data["booking_type"]
                   /\ row.date = last.booking_data["date"]
                   /\ row.time = last.booking_data["time"]
                   /\ \E i \in RowsWithEmail(customers, last.booking_data["email"]) :
                         customers[i].customer_id = row.customer_id
             /\ CreateBooking(last.customers, last.bookings,
                              last.booking_data["name"], last.booking_data["email"],
                              last.booking_data["phone"], last.booking_data["booking_type"],
                              last.booking_data["date"], last.booking_data["time"])
                   = [customers |-> customers, bookings |-> bookings,
                      booking_id |-> bookings[Len(bookings)].id]

\* a second booking for an email already in the store has returned: the
\* customer row kept its id and changed its name, and a customer with the
\* same email in other case has a row of its own
C21_KnownCustomerRenamed ==
    /\ last.kind = "returned"
    /\ Len(customers) = 2
    /\ \E i \in RowsWithEmail(last.customers, last.booking_data["email"]) :
          /\ last.customers[i].name # last.booking_data["name"]
          /\ customers[i].name = last.booking_data["name"]
          /\ customers[i].customer_id = last.customers[i].customer_id

-----------------------------------------------------------------------------
(* A save that fails                                                       *)

\* what the re-validation of _save_booking tests: the six fields present
\* and not empty, the email of the email shape, the date on the calendar
PassesRevalidation(draft) ==
    /\ \A n \in 1..Len(required_fields) :
          required_fields[n] \in DOMAIN draft /\ draft[required_fields[n]] # ""
    /\ EmailMatches(draft["email"])
    /\ DateParses(draft["date"])

\* C22: a save that fails leaves the store as it was: a draft that fails
\* the re-validation (a field missing or empty, an email not of the email
\* shape, a date that does not parse) never reaches create_booking, and a
\* create_booking that raises, at whatever statement, leaves the customers
\* and the bookings tables without a row added or changed
C22_FailedSaveLeavesStore ==
    /\ last.kind = "refused"
          => /\ ~PassesRevalidation(last.booking_data)
             /\ last.at = "idle" /\ calls[last.conversation].pc = "idle"
             /\ customers = last.customers /\ bookings = last.bookings
    /\ last.kind \in {"raised", "returned"} => PassesRevalidation(last.booking_data)
    /\ last.kind = "raised" => customers = last.customers /\ bookings = last.bookings
    /\ \A c \in Conversations :
          calls[c].pc # "idle" => PassesRevalidation(calls[c].booking_data)

\* create_booking raised at its commit, after the INSERT of a new customer
\* and of the booking: the store holds no customer with that email
C22_RaisedAtCommit ==
    /\ last.kind = "raised" /\ last.at = "commit"
    /\ RowsWithEmail(customers, last.booking_data["email"]) = {}

-----------------------------------------------------------------------------
(* Two conversations inside create_booking at once                         *)

\* C23: with two conversations inside create_booking at once, the same
\* new email included, no call is refused for what the other one did: a
\* call raises only when the store itself fails, so both booking rows are
\* created
C23_ConcurrentCallsBothStore ==
    last.kind = "raised" => last.cause = "fault"

-----------------------------------------------------------------------------
(* One booking row for one confirmation                                    *)

\* what generate_response would do with the utterance in the session as it
\* is, the store and the mail server working
Turned(user_message, reply) ==
    GenerateResponse(user_message, Seen(Append(messages, UserTurn)), booking_data,
                     awaiting_confirmation, pdfs_uploaded, customers, bookings,
                     [reply |-> reply, store_ok |-> TRUE, smtp_ok |-> TRUE,
                      today |-> Today(clock), now |-> Now(clock),
                      context |-> None, chat_reply |-> None])

\* the typed utterances that hold an affirmative word
AffirmativeUtterances == {u \in BookingUtterances : IsAffirmative(u)}

\* C24: a turn calls create_booking only when it started with the session
\* awaiting confirmation and its utterance was affirmative; and once a
\* booking is stored the session awaits nothing, so the affirmative reply
\* typed again stores no second booking
C24_OneRowPerConfirmation ==
    /\ (last.kind = "chat" /\ (last.create_calls > 0 \/ last.save_ok))
          => last.was_awaiting /\ last.affirmative /\ last.create_calls = 1
    /\ (last.kind = "chat" /\ last.save_ok)
          => /\ ~awaiting_confirmation
             /\ "yes" \in AffirmativeUtterances
             /\ \A u \in AffirmativeUtterances : \A reply \in RepliesFor(u, booking_data) :
                   \E g \in {Turned(u, reply)} :
                      /\ g.effects.create_calls = 0
                      /\ g.effects.bookings = bookings
                      /\ g.effects.customers = customers

\* a booking has just been stored, and 'yes' typed now is taken as the
\* start of a new dialogue that stores nothing
C24_SecondYesStoresNothing ==
    /\ last.kind = "chat" /\ last.save_ok /\ Len(bookings) = 1
    /\ Turned("yes", None).effects.bookings = bookings
    /\ ~Turned("yes", None).awaiting

-----------------------------------------------------------------------------
(* The answer to a question of the booking dialogue                        *)

\* the turn just made was handled by the booking dialogue, which asked for
\* something and is still collecting: the opening line, the question for a
\* missing field, the request to correct a rejected value, or the restart
\* prompt after a negative reply
AskedAndCollecting ==
    /\ last.kind = "chat" /\ last.route = "booking"
    /\ ~awaiting_confirmation
    /\ ~last.affirmative

\* C25: after such a turn, the next utterance, if it holds no trigger
\* phrase, is handled by the booking dialogue again and not by the query or
\* the general path, with an empty draft as with a started one
C25_AnswerStaysInBooking ==
    AskedAndCollecting
        => \A u \in TriggerFree : \A reply \in RepliesFor(u, booking_data) :
              Turned(u, reply).route = "booking"

-----------------------------------------------------------------------------
(* A date that arrives after the time                                      *)

\* the minute of the day of a time HH:MM
MinuteOfDay(time_str) == ToInt(SplitHour(time_str)) * 60 + ToInt(SplitMinute(time_str))

-----------------------------------------------------------------------------
(* The summary and the question of a collecting turn                       *)

\* the line of the summary for a field the draft holds, nothing otherwise
SummaryLine(label, field, draft) ==
    IF field \in DOMAIN draft /\ draft[field] # ""
    THEN label \o ": **" \o draft[field] \o "**\n"
    ELSE ""

\* the response owed to a draft with a field missing: the opening line
\* when it holds none of the six fields, else the summary of the fields it
\* holds, in the order name, email, phone, service, date, time, and the
\* question for the first one it lacks
SummaryAndQuestion(draft, today) ==
    IF \A n \in 1..Len(required_fields) : required_fields[n] \notin DOMAIN draft
    THEN "Great! Let's make a booking. What's your name?"
    ELSE "**Information collected:**\n"
            \o SummaryLine("Name", "name", draft)
            \o SummaryLine("Email", "email", draft)
            \o SummaryLine("Phone", "phone", draft)
            \o SummaryLine("Booking Type", "booking_type", draft)
            \o SummaryLine("Date", "date", draft)
            \o SummaryLine("Time", "time", draft)
            \o "\n" \o Question(FirstMissing(draft), today)

\* C27: a collecting turn that reports no error and leaves a field missing
\* answers with the summary of exactly the fields collected, in the fixed
\* order, followed by the question for the first missing field in that
\* order; with all six missing it answers with the opening line alone
C27_SummaryThenFirstMissing ==
    (CollectingTurn /\ ~last.rejected /\ ~awaiting_confirmation)
        => LastResponse = SummaryAndQuestion(booking_data, Today(clock))

\* name, email and phone are collected and the turn asked for the service
C27_AskedServiceAfterThree ==
    /\ CollectingTurn /\ ~last.rejected /\ ~awaiting_confirmation
    /\ DOMAIN booking_data = {"name", "email", "phone"}
    /\ EndsWith(LastResponse, Question("booking_type", Today(clock)))

-----------------------------------------------------------------------------
(* Validation visits every field and reports every failure                 *)

\* the error of one field of a call, None when the field passes
FieldError(field, extracted_data, today, now) ==
    CASE field = "email" -> EmailError(extracted_data["email"])
      [] field = "phone" -> PhoneError(extracted_data["phone"])
      [] field = "date"  -> DateError(extracted_data["date"], today)
      [] field = "time"  -> TimeCheck(extracted_data["time"],
                                      Get(extracted_data, "date", None), today, now).error
      [] field = "name"  -> NameError(extracted_data["name"])

\* the fields of a call that fail
Failing(extracted_data, today, now) ==
    {f \in DOMAIN extracted_data : FieldError(f, extracted_data, today, now) # None}

\* the place of a field in the order of the checks
CheckOrder == <<"email", "phone", "date", "time", "name">>

CheckRank(field) == CHOOSE n \in 1..Len(CheckOrder) : CheckOrder[n] = field

\* the bullet of the response for a field, nothing when it passes
BulletFor(label, field, extracted_data, today, now) ==
    IF field \in Failing(extracted_data, today, now)
    THEN "* **" \o label \o "**: " \o FieldError(field, extracted_data, today, now) \o "\n"
    ELSE ""

\* C28: validation checks email, phone, date, time and name in that order
\* and stops at none of them: every failing field has exactly one entry,
\* the entries are in the order of the checks, the response lists all of
\* them and asks to correct the first failing field
C28_EveryFailureReported ==
    last.kind = "report" =>
        LET given == last.extracted_data
            today == Today(clock)
            now == Now(clock)
            errors == last.errors
            failing == Failing(given, today, now)
            first == CHOOSE f \in failing : \A g \in failing : CheckRank(f) <= CheckRank(g)
        IN  /\ {errors[n][1] : n \in 1..Len(errors)} = failing
            /\ Len(errors) = Cardinality(failing)
            /\ \A n \in 1..Len(errors) :
                    /\ errors[n][2] = FieldError(errors[n][1], given, today, now)
                    /\ \A m \in 1..(n - 1) : CheckRank(errors[m][1]) < CheckRank(errors[n][1])
            /\ (failing = {}) = (last.response = None)
            /\ failing # {} =>
                    last.response =
                        "I found some issues:\n\n"
                            \o BulletFor("Email", "email", given, today, now)
                            \o BulletFor("Phone", "phone", given, today, now)
                            \o BulletFor("Date", "date", given, today, now)
                            \o BulletFor("Time", "time", given, today, now)
                            \o BulletFor("Name", "name", given, today, now)
                            \o "\nPlease provide the correct " \o first \o "."

\* a call whose five fields all fail: five entries, the email asked for
C28_FiveFailuresListed ==
    /\ last.kind = "report"
    /\ Len(last.errors) = 5
    /\ EndsWith(last.response, "Please provide the correct email.")

-----------------------------------------------------------------------------
(* _extract_booking_info called directly on an empty draft                  *)

\* what the completion call may come back with: content is
\* response.content (LLMFailure when llm.invoke raises), result what
\* .strip().strip('"').strip("'") makes of it
Completions ==
    {[content |-> LLMFailure, result |-> None],
     [content |-> "NOT_FOUND", result |-> "NOT_FOUND"],
     [content |-> " \"NOT_FOUND\"\n", result |-> "NOT_FOUND"],
     [content |-> "", result |-> ""],
     [content |-> "  \n", result |-> ""],
     [content |-> "\"\"", result |-> ""],
     [content |-> " Salon Service\n", result |-> "Salon Service"],
     [content |-> "'Dental Checkup'", result |-> "Dental Checkup"],
     [content |-> "'\"Spa\"'", result |-> "\"Spa\""],
     [content |-> SubSeq(HundredChars, 1, 99), result |-> SubSeq(HundredChars, 1, 99)],
     [content |-> " " \o HundredChars, result |-> HundredChars]}

\* the completions a call on text can meet: none when a keyword matches
CompletionsFor(text) ==
    IF CallsLLM(text) THEN {c.content : c \in Completions} ELSE {None}

\* one call _extract_booking_info(text, {}); last keeps the text, whether
\* the completion call was made and what it yielded, what
\* _extract_booking_type returned and the extracted dict
ExtractBookingInfoCall ==
    \E text \in ServiceTexts \cup PlainTexts \cup CatalogTexts :
        \E reply \in CompletionsFor(text) :
            /\ last' = [kind |-> "extract",
                        text |-> text,
                        called |-> CallsLLM(text),
                        reply |-> reply,
                        booking_type |-> ExtractBookingType(text, reply),
                        extracted |-> ExtractBookingInfo(text, EmptyDict, reply)]
            /\ UNCHANGED <<messages, booking_data, awaiting_confirmation, pdfs_uploaded,
                           customers, bookings, clock, script, calls>>

\* the drafts a call finds: empty, with a name, with a name and an email
NameDrafts ==
    {EmptyDict, [f \in {"name"} |-> "Bo"], [f \in {"name", "email"} |->
                                              IF f = "name" THEN "Bo" ELSE "a@b.co"]}

\* one call _extract_booking_info(text, existing_data) on a draft with or
\* without a name; last keeps the arguments and the extracted dict
ExtractNameCall ==
    \E nt \in NameTexts, existing_data \in NameDrafts :
        \E reply \in {LLMFailure, "NOT_FOUND"} :
            /\ last' = [kind |-> "name",
                        text |-> nt.text,
                        existing_data |-> existing_data,
                        reply |-> reply,
                        extracted |-> ExtractBookingInfo(nt.text, existing_data, reply)]
            /\ UNCHANGED <<messages, booking_data, awaiting_confirmation, pdfs_uploaded,
                           customers, bookings, clock, script, calls>>

\* the drafts of a call: the email is asked for next, or the phone
ContactDrafts ==
    {[f \in {"name"} |-> "Al"],
     [f \in {"name", "email"} |-> IF f = "name" THEN "Al" ELSE "x@y.org"]}

\* one call handle_booking_intent(text, draft, False) on a draft without a
\* phone; last keeps the arguments, the extracted dict, the errors of
\* _validate_extracted_data and what the call returns
HandleCollectingCall ==
    \E ct \in ContactTexts, draft \in ContactDrafts, reply \in {LLMFailure, "NOT_FOUND"} :
        \E env \in {[reply |-> reply, store_ok |-> TRUE, smtp_ok |-> TRUE,
                     today |-> Today(clock), now |-> Now(clock)]} :
            \E extracted \in {ExtractBookingInfo(ct.text, draft, reply)},
               returned \in {HandleBookingIntent(ct.text, draft, FALSE, customers,
                                                 bookings, env)} :
                /\ last' = [kind |-> "collect",
                            text |-> ct.text,
                            draft |-> draft,
                            extracted |-> extracted,
                            errors |-> ValidationErrors(extracted, draft, env.today, env.now),
                            response |-> returned.response,
                            updated_data |-> returned.booking_data]
                /\ UNCHANGED <<messages, booking_data, awaiting_confirmation,
                               pdfs_uploaded, customers, bookings, clock, script, calls>>

NextExtract == ExtractBookingInfoCall \/ ExtractNameCall \/ HandleCollectingCall

SpecExtract == Init /\ [][NextExtract]_vars

-----------------------------------------------------------------------------
(* The service is the first row of the table with a trigger word           *)

\* the services in the order of the table
TableOrder ==
    <<"Doctor Appointment", "Salon Service", "Hotel Reservation", "Event Booking",
      "Fitness Class", "Restaurant Reservation", "Travel Booking", "Spa Treatment",
      "Consultation">>

\* word occurs somewhere in text, letter case apart
OccursIn(word, text) ==
    \E from \in 1..Len(text) :
        /\ from + Len(word) - 1 <= Len(text)
        /\ \A n \in 1..Len(word) : LowerCh(Ch(text, from + n - 1)) = Ch(word, n)

\* the rows of the table with a trigger word in text
RowsTriggered(text) ==
    {r \in 1..Len(TableOrder) :
        \E k \in 1..Len(service_keywords[r]) : OccursIn(service_keywords[r][k], text)}

\* C29: keyword extraction returns the first service, in the order of the
\* table, one of whose trigger words occurs in the utterance as a
\* substring, letter case and position apart; the completion call is made
\* only when no service has one
C29_FirstRowWithTrigger ==
    last.kind = "extract" =>
        LET rows == RowsTriggered(last.text)
        IN  /\ rows # {} =>
                last.booking_type = TableOrder[CHOOSE r \in rows : \A q \in rows : r <= q]
            /\ last.called => rows = {}

\* the trigger word of the first row comes after that of the eighth, in
\* another case, and the first row is returned without a completion call
C29_LaterWordEarlierRow ==
    /\ last.kind = "extract"
    /\ last.text = "Spa then Doctor"
    /\ last.booking_type = "Doctor Appointment"
    /\ ~last.called

-----------------------------------------------------------------------------
(* The completion is used only when it names something                     *)

\* what the stripped completion of the last call is, None when the call
\* raised
StrippedReply ==
    (CHOOSE c \in Completions : c.content = last.reply).result

\* the completion call succeeded with a usable answer
UsableReply ==
    /\ last.reply # LLMFailure
    /\ StrippedReply # ""
    /\ StrippedReply # "NOT_FOUND"
    /\ Len(StrippedReply) < 100

\* C30: the fallback yields a service only when the completion call
\* succeeds and its stripped reply is not empty, is not NOT_FOUND and is
\* shorter than 100 characters, and then it yields that reply; otherwise
\* no service is extracted, no validation error arises from it and the
\* extraction is that of the other fields alone
C30_FallbackUsedOnlyWhenUsable ==
    (last.kind = "extract" /\ last.called) =>
        /\ UsableReply =>
                /\ last.booking_type = StrippedReply
                /\ last.extracted["booking_type"] = StrippedReply
        /\ ~UsableReply =>
                /\ last.booking_type = None
                /\ "booking_type" \notin DOMAIN last.extracted
        /\ \A n \in 1..Len(ValidationErrors(last.extracted, EmptyDict,
                                              Today(clock), Now(clock))) :
                ValidationErrors(last.extracted, EmptyDict,
                                 Today(clock), Now(clock))[n][1] # "booking_type"
        /\ \A f \in DOMAIN last.extracted \ {"booking_type"} :
                last.extracted[f] = ExtractBookingInfo(last.text, EmptyDict, LLMFailure)[f]
        /\ DOMAIN ExtractBookingInfo(last.text, EmptyDict, LLMFailure)
                = DOMAIN last.extracted \ {"booking_type"}

\* a completion of 100 characters after stripping is discarded
C30_LongReplyDiscarded ==
    /\ last.kind = "extract" /\ last.called
    /\ last.reply # LLMFailure
    /\ Len(StrippedReply) = 100
    /\ last.booking_type = None
    /\ "booking_type" \notin DOMAIN last.extracted

-----------------------------------------------------------------------------
(* The name heuristic                                                      *)

\* the words of text, counted by their last characters
WordsIn(text) ==
    Cardinality({i \in 1..Len(text) :
                    /\ Ch(text, i) \notin {" ", "\n"}
                    /\ (i = Len(text) \/ Ch(text, i + 1) \in {" ", "\n"})})

\* text with the spaces at both ends left out
Trimmed(text) ==
    LET inked == {i \in 1..Len(text) : Ch(text, i) \notin {" ", "\n"}}
    IN  IF inked = {} THEN ""
        ELSE SubSeq(text, CHOOSE i \in inked : \A j \in inked : i <= j,
                          CHOOSE i \in inked : \A j \in inked : i >= j)

\* the conditions under which an utterance is taken as the name
ReadsAsName(text) ==
    /\ WordsIn(text) <= 5
    /\ Len(Trimmed(text)) < 50
    /\ \E i \in 1..Len(Trimmed(text)) : Ch(Trimmed(text), i) \in Letters
    /\ \A i \in 1..Len(Trimmed(text)) : Ch(Trimmed(text), i) \in Letters \cup {" "}
    /\ \A i \in 1..Len(text) : Ch(text, i) \notin Digits \cup {"@", ":", "-"}
    /\ \A i \in 1..(Len(text) - 3) : SubSeq(text, i, i + 3) # ".com"
    /\ \A w \in {"book", "appointment", "reservation", "schedule", "want", "need",
                  "service"} : ~OccursIn(w, text)

\* C31: a name is extracted only when the draft holds no name and the
\* utterance has at most five words, is under 50 characters, is alphabetic
\* once its spaces are removed, holds no digit, '@', '.com', ':' or '-'
\* and none of the booking phrases; then the name is the title-cased
\* utterance, and when any condition fails no name is extracted
C31_NameOnlyWhenItReadsAsOne ==
    last.kind = "name" =>
        LET titled == (CHOOSE nt \in NameTexts : nt.text = last.text).titled
        IN  IF "name" \notin DOMAIN last.existing_data /\ ReadsAsName(last.text)
            THEN "name" \in DOMAIN last.extracted /\ last.extracted["name"] = titled
            ELSE "name" \notin DOMAIN last.extracted

\* two upper-case words on an empty draft become the name, title-cased
C31_TwoWordsTitleCased ==
    /\ last.kind = "name"
    /\ last.text = "AL BO"
    /\ last.existing_data = EmptyDict
    /\ "name" \in DOMAIN last.extracted
    /\ last.extracted["name"] = "Al Bo"

-----------------------------------------------------------------------------
(* detect_intent reads the last three turns only                           *)

\* the histories of at most MaxTurns turns whose last three turns are those
\* of history: history itself when it is shorter than three turns, else
\* its last three turns after any earlier turns
SameLastThree(history) ==
    IF Len(history) < 3 THEN {history}
    ELSE {earlier \o LastN(history, 3) :
            earlier \in UNION {[1..n -> HistoryTurns] : n \in 0..(MaxTurns - 3)}}

\* C32: the classification depends on the utterance and the last three
\* turns of the history only: every history with the same last three
\* turns gets the same answer for the same utterance, whatever its
\* earlier turns hold
C32_EarlierTurnsUnread ==
    last.kind = "intent" =>
        \A history \in SameLastThree(messages) :
            DetectIntent(last.user_message, Seen(history)) = last.intent

\* the email question is the fourth turn from the end, the last three
\* turns hold no marker, and an email address is classified as a query
C32_OldQuestionIgnored ==
    /\ last.kind = "intent"
    /\ Len(messages) = 4
    /\ messages[1] = [role |-> "assistant", content |-> Question("email", StartOrdinal)]
    /\ \A n \in 2..4 : messages[n] \in {UserTurn, [role |-> "assistant",
                                                    content |-> GreetingReply]}
    /\ last.user_message = "a@b.co"
    /\ last.intent = "query"

-----------------------------------------------------------------------------
(* The session after a turn that ended in the except branch                *)

\* C33: a turn that ends in the catch-all error response of
\* generate_response leaves the draft and the awaiting_confirmation flag
\* as they were before the turn
C33_ErrorTurnLeavesSession ==
    last.kind = "error" =>
        /\ booking_data = last.draft_before
        /\ awaiting_confirmation = last.awaiting_before

-----------------------------------------------------------------------------
(* When the draft loses a field                                            *)

\* a step after which a field of the draft is gone or holds another value
DraftLosesOrChanges ==
    \E f \in DOMAIN booking_data :
        f \notin DOMAIN booking_data' \/ booking_data'[f] # booking_data[f]

\* a step of the Clear Chat button
ClearedByButton == last' = NoTurn /\ messages' = <<>>

\* a step of a turn that started at the confirmation with an affirmative
\* or a negative reply
ConfirmationAnswered ==
    /\ awaiting_confirmation
    /\ last'.kind = "chat"
    /\ last'.affirmative \/ last'.negative

\* C34: the draft is emptied only by an affirmative reply at the
\* confirmation (stored or not), by a negative reply at the confirmation
\* or by Clear Chat; every other step keeps every collected field and its
\* value
C34_DraftOnlyResetByAnswerOrClear ==
    [][DraftLosesOrChanges =>
            /\ booking_data' = EmptyDict
            /\ ClearedByButton \/ ConfirmationAnswered]_vars

\* a negative reply at the confirmation has emptied the draft
C34_CancelledDraftEmpty ==
    /\ last.kind = "chat" /\ last.was_awaiting /\ last.negative /\ ~last.affirmative
    /\ booking_data = EmptyDict
    /\ ~awaiting_confirmation

-----------------------------------------------------------------------------
(* What the draft holds while a confirmation is awaited                    *)

\* C35: in every state reached by turns and Clear Chat, while
\* awaiting_confirmation is set the draft holds name, email, phone, service
\* type, date and time, none of them empty, and a price
C35_AwaitingDraftComplete ==
    awaiting_confirmation =>
        \A f \in {"name", "email", "phone", "booking_type", "date", "time", "pricing"} :
            f \in DOMAIN booking_data /\ booking_data[f] # ""

\* a turn has just asked for the confirmation of a draft of seven entries
C35_ConfirmationAsked ==
    /\ awaiting_confirmation
    /\ last.kind = "chat" /\ ~last.was_awaiting
    /\ Cardinality(DOMAIN booking_data) = 7

-----------------------------------------------------------------------------
(* The service type of the draft and of the stored bookings                 *)

\* the nine service names of the catalog
CatalogNames == DOMAIN service_pricing

\* C36: in every reachable state the service type of the draft, and so
\* the service type of every stored booking, is one of the nine service
\* names of the catalog
C36_ServiceTypeInCatalog ==
    /\ "booking_type" \in DOMAIN booking_data
            => booking_data["booking_type"] \in CatalogNames
    /\ \A n \in 1..Len(bookings) : bookings[n].booking_type \in CatalogNames

-----------------------------------------------------------------------------
(* Typing a service name of the service question                           *)

\* C37: for each of the nine service names the service question lists,
\* extraction applied to that name as the utterance returns that service
C37_TypedNameReturnsItself ==
    (last.kind = "extract" /\ last.text \in CatalogTexts)
        => last.booking_type = last.text

-----------------------------------------------------------------------------
(* What the extractor emits for email and phone passes the validator       *)

\* the entry of ContactTexts for the utterance of the last call
LastContact == CHOOSE ct \in ContactTexts : ct.text = last.text

\* what the extractor emits for field: the first match, when the draft
\* does not hold the field yet
Emitted(field, found) ==
    IF found # None /\ field \notin DOMAIN last.draft
    THEN field \in DOMAIN last.extracted /\ last.extracted[field] = found
    ELSE field \notin DOMAIN last.extracted

\* C38: every email and every phone the extractor emits passes the check
\* of the validator, so a collecting turn never reports an email or a
\* phone error; an ill-formed email or a run of fewer than 10 or more than
\* 15 digits is not extracted, and the turn asks for the field again with
\* no error about the value
C38_EmittedContactsPassValidation ==
    last.kind = "collect" =>
        /\ Emitted("email", LastContact.email)
        /\ Emitted("phone", LastContact.phone)
        /\ "email" \in DOMAIN last.extracted => EmailError(last.extracted["email"]) = None
        /\ "phone" \in DOMAIN last.extracted => PhoneError(last.extracted["phone"]) = None
        /\ \A n \in 1..Len(last.errors) : last.errors[n][1] \notin {"email", "phone"}
        /\ (last.extracted = EmptyDict /\ last.errors = <<>>) =>
                /\ last.updated_data = last.draft
                /\ last.response = SummaryAndQuestion(last.draft, Today(clock))

\* an address without a top-level domain after the email question: nothing
\* is extracted and the email is asked for again
C38_IllFormedEmailAskedAgain ==
    /\ last.kind = "collect"
    /\ last.text = "a@b"
    /\ DOMAIN last.draft = {"name"}
    /\ last.extracted = EmptyDict
    /\ last.errors = <<>>
    /\ EndsWith(last.response, Question("email", Today(clock)))

-----------------------------------------------------------------------------
(* Which branches of the general-chat handler a turn can reach             *)

\* what may be typed outside a booking: greetings bare and not, in either
\* case, short answers, thanks, a goodbye, an upload question, a question
GeneralUtterances ==
    {"hi", "Hello", " hey ", "hi there", "good morning", "yes", "no", "ok", "nope",
     "yeah", "thanks", "bye", "how do i upload?", "what are your hours?", "see you"}

\* C39: detect_intent answers 'general' only for the bare utterances hi,
\* hello and hey; so whenever generate_response reaches the general-chat
\* handler, the handler takes its greeting branch or one of its yes/no
\* branches, never the thanks, goodbye, upload or completion branch
C39_GeneralOnlyForBareGreeting ==
    \A user_message \in GeneralUtterances :
        LET seen == Seen(Append(messages, UserTurn))
            intent == DetectIntent(user_message, seen)
            bare == \E n \in 1..Len(user_message), m \in 1..Len(user_message) :
                        /\ Lower(SubSeq(user_message, n, m)) \in {"hi", "hello", "hey"}
                        /\ \A k \in (1..(n - 1)) \cup ((m + 1)..Len(user_message)) :
                                Ch(user_message, k) = " "
        IN  /\ intent = "general" => bare
            /\ CallsGeneral(user_message, intent,
                            Delegates(intent, booking_data, awaiting_confirmation),
                            pdfs_uploaded)
                    => GeneralBranch(user_message) \in {"greeting", "yes", "no"}

\* a turn classified 'general' was answered by the greeting branch
C39_GreetingAnswered ==
    /\ last.kind = "chat"
    /\ last.intent = "general" /\ last.route = "general"
    /\ LastResponse = GreetingReply

=============================================================================
